---- MODULE Spec2Model ----
(***************************************************************************)
(* Nirantar control plane: the controller's reconciler, webhooks and admin *)
(* actions (apps/controller/main.go) and the per-channel relay manager     *)
(* (relay main package), modelled as state machines.                       *)
(*                                                                         *)
(* One channel is modelled (slug "alpha"); the controller's maps are keyed *)
(* by every name the handlers can use as a key for it.                     *)
(***************************************************************************)
EXTENDS Integers, Sequences, FiniteSets, TLC

(***************************************************************************)
(* Bounds of the model                                                     *)
(***************************************************************************)
MaxAge == 60            \* a cooldown entry stops ageing here (seconds)
MaxDests == 1           \* destinations of the channel
MaxAsync == 1           \* pending "go UpdateActiveSource" goroutines
MaxPumps == 1           \* primary pump goroutines the relay starts
MaxTranscoders == 2     \* transcoder processes the relay starts
MaxDistributors == 3    \* distributor goroutines the relay starts
MaxAudit == 2           \* rows of audit_logs a recording specification keeps
MaxChurnPumps == 2      \* pump goroutines the relay starts in ChurnSpec
MaxUpgradeDests == 2    \* destinations of a channel that has several
MaxWindow == 3          \* Config.StabilityWindow (STABILITY_WINDOW, default 3)
MaxPushes == 4          \* calls of UpdateHealthHistory per key
MaxRestarts == 3        \* transcoder processes of a relay whose transcoder exits
MaxChan == 2            \* chunks streamChan holds (100 in the relay)
MaxTicks == 3           \* reconciler ticks of a cold start
MaxLaunches == 8        \* distributor goroutines of a relay whose destinations stay

(***************************************************************************)
(* Program constants                                                       *)
(***************************************************************************)
DefaultFailoverTimeout == 60   \* main.go:414
ObsKbpsThreshold == 100        \* main.go:335

TimeStep == MaxAge \div 2   \* the step of the clock between two observations

Slug == "alpha"                \* channels.name
OBSToken == "tokP"             \* channels.obs_token
LoopToken == "tokL"            \* channels.loop_token
BadToken == "bad"
ObsStreamName == "alpha-obs"   \* ch.Name + "-obs"
LoopImage == "loop-image"      \* Config.LoopImage
RelayImage == "relay-image"    \* Config.RelayImage

Names == {Slug, OBSToken}      \* keys the handlers use for the in-memory maps
DestIds == 1..MaxDests
NoTime == -1

(***************************************************************************)
(* String helpers on the modelled names                                    *)
(***************************************************************************)
HasSuffixObs(s) == s = ObsStreamName
TrimSuffixObs(s) == IF s = ObsStreamName THEN Slug ELSE s
LoopContainerName(n) == [kind |-> "loop", ch |-> n]     \* "loop-%s"
RelayContainerName(n) == [kind |-> "relay", ch |-> n]   \* "relay-%s"
StreamURL(s) == [url |-> "rtmp://srs:1935/live/", stream |-> s]
DestURL(d) == [url |-> "rtmp://dst/live/", key |-> d]
HashToken(t) == [sha256 |-> t]
NULL == [null |-> TRUE]
\* audit_logs and the webhook response when a specification does not record them
NotRecorded == [on |-> FALSE, rows |-> <<>>]
NoHealth == [on |-> FALSE]
NoResponse == [on |-> FALSE]

VARIABLES
    db,                 \* the channel's row in table channels
    dests,              \* rows of table destinations
    containers,         \* the container runtime: set of containers
    activeSourceMap,    \* Controller.activeSourceMap
    manualLoopOverride, \* Controller.manualLoopOverride
    takeoverCooldown,   \* Controller.takeoverCooldown; an entry is kept as
                        \* time.Since(entry), which is all the code reads
    tk,                 \* the reconciler goroutine: position and locals
    pendingSource,      \* "go c.UpdateActiveSource(ch.ID, "OBS")" not yet run
    pendingStops,       \* "go c.EnsureContainerStopped(name)" not yet run
    restarting,         \* a restart action is between its remove and its start
    auditLog,           \* the rows inserted into table audit_logs, in order
    hookResp,           \* the HTTP response of the last publish webhook
    sync,               \* history: how long ago a tick last changed the source map
    health              \* Config.StabilityWindow and Controller.HealthHistory

ctlVars == <<db, dests, containers, activeSourceMap, manualLoopOverride,
             takeoverCooldown, tk, pendingSource, pendingStops,
             restarting, auditLog, hookResp, sync, health>>

VARIABLES
    relayUp,        \* the relay process has not run cleanup()
    pipeOpen,       \* the named pipe exists and pipeWriter holds it open
    currentConfig,  \* the relay's configuration copy
    currentMode,    \* "LOOP" or "OBS"
    obsCmd,         \* the installed primary pump (index into pumps), or Nil
    pumps,          \* goroutines of startOBSPump with their child process
    transcoderCmd,  \* the installed transcoder (index into transcoders), or Nil
    transcoders,    \* transcoder processes with their waiting goroutine
    distributors,   \* map URL -> cmd: NoEntry, Nil or an index into dists
    failureCounts,  \* map URL -> consecutive early exits (0 when absent)
    dists,          \* goroutines of startDistributor with their child process
    hc,             \* the goroutine running handleConfigChange
    mon,            \* the goroutine running monitorSRS
    lastUpdate,     \* the payload of the previous POST /update
    mux,            \* the goroutine of loopPumpLoop and streamChan
    locks           \* mu, destMu, failureMu, modeMutex and the goroutines'
                    \* positions between their Lock and Unlock calls

relayVars == <<relayUp, pipeOpen, currentConfig, currentMode, obsCmd, pumps,
               transcoderCmd, transcoders, distributors, failureCounts, dists,
               hc, mon, lastUpdate, mux, locks>>

(***************************************************************************)
(* Container runtime (Docker API as the controller uses it)                *)
(***************************************************************************)
Exists(cs, n) == \E c \in cs : c.name = n
Running(cs, n) == \E c \in cs : c.name = n /\ c.running

\* ContainerRemove(name, Force: true)
ContainerRemove(cs, n) == {c \in cs : c.name # n}

\* Variant: a runtime that accepts a second container of the same name
ContainerCreate_NoConflict(cs, n, img, id) ==
    cs \cup {[name |-> n, image |-> img, running |-> FALSE, id |-> id]}

\* ContainerCreate(..., name): a name already in use is a Conflict error
ContainerCreate(cs, n, img, id) ==
    IF Exists(cs, n) THEN cs
    ELSE cs \cup {[name |-> n, image |-> img, running |-> FALSE, id |-> id]}

\* ContainerStart(id): fails when the container is gone
ContainerStart(cs, id) ==
    {IF c.id = id THEN [c EXCEPT !.running = TRUE] ELSE c : c \in cs}

EnsureContainerStopped(cs, n) == ContainerRemove(cs, n)

\* EnsureContainerRunning run without interruption (the admin handlers)
EnsureContainerRunning(cs, n, id) ==
    IF Running(cs, n) THEN cs
    ELSE LET cleared == ContainerRemove(cs, n)
             created == ContainerCreate(cleared, n, LoopImage, id)
         IN ContainerStart(created, id)


(***************************************************************************)
(* What FetchSRSStreams can return for one stream name                     *)
(***************************************************************************)
Absent == [present |-> FALSE]
StreamRecs ==
    \* one record per liveness class of lines 333-335
    {[present |-> TRUE, active |-> FALSE, recv |-> 2500, width |-> 1280],
     [present |-> TRUE, active |-> TRUE, recv |-> 0, width |-> 0],
     [present |-> TRUE, active |-> TRUE, recv |-> ObsKbpsThreshold, width |-> 1280],
     [present |-> TRUE, active |-> TRUE, recv |-> 2500, width |-> 1280]}
StreamNames == {Slug, ObsStreamName, OBSToken}
StreamMaps == [StreamNames -> StreamRecs \cup {Absent}]

NoPayload == [none |-> TRUE]

\* The enabled destinations of a snapshot, in row order
RECURSIVE EnabledDestsFrom(_, _)
EnabledDestsFrom(ds, i) ==
    IF i \notin DOMAIN ds THEN <<>>
    ELSE (IF ds[i].enabled THEN <<i>> ELSE <<>>) \o EnabledDestsFrom(ds, i + 1)
EnabledDests(ds) == EnabledDestsFrom(ds, 1)

\* EnsureRelayRunning, steps 1-2: the source URL and the payload
SourceURL(ch, obsSourceStream) ==
    IF ch.ActiveSource = "OBS"
    THEN StreamURL(IF obsSourceStream = "" THEN ObsStreamName ELSE obsSourceStream)
    ELSE StreamURL(Slug)

RelayPayload(ch, obsSourceStream) ==
    [source_url |-> SourceURL(ch, obsSourceStream),
     destinations |-> [i \in 1..Len(EnabledDests(ch.Destinations)) |->
                          DestURL(EnabledDests(ch.Destinations)[i])]]

\* failoverTimeout of ReconcileChannel
FailoverTimeoutOf(ch) ==
    IF ch.FailoverTimeout <= 0 THEN DefaultFailoverTimeout ELSE ch.FailoverTimeout

\* inCooldown && time.Since(cooldownTime) < failoverTimeout
InCooldownWindow(inCooldown, sinceCooldown, ch) ==
    inCooldown /\ sinceCooldown < FailoverTimeoutOf(ch)

NoCh == [none |-> TRUE]
\* the ticks of a specification that does not count them
NotCounted == NoTime
\* The maps as they were when the tick started (for the record)
NoSnapshot == [none |-> TRUE]

\* A snapshot without a map the tick has read
Forget(snap, map) == [f \in DOMAIN snap \ {map} |-> snap[f]]
Snapshot(w) ==
    [ActiveSourceMap |-> w.activeSourceMap[Slug],
     ManualLoopOverride |-> w.manualLoopOverride[Slug],
     TakeoverCooldown |-> w.takeoverCooldown[Slug] # NoTime]
\* tick: for the record, the number of ticks completed so far
IdleTick ==
    [pc |-> "idle", tick |-> NotCounted, snap |-> NoSnapshot, ch |-> NoCh, obsAlive |-> FALSE, loopAlive |-> FALSE,
     obsActive |-> FALSE, isObsRobust |-> FALSE, ObsSourceStream |-> "",
     currentSource |-> "",
     hasManualLoopOverride |-> FALSE, switched |-> FALSE,
     inCooldown |-> FALSE, cooldownTime |-> NoTime, payload |-> NoPayload]

TickId(n) == [by |-> "tick", name |-> n]
ApiId(n) == [by |-> "api", name |-> n]
LoopName == LoopContainerName(Slug)
RelayName == RelayContainerName(Slug)

(***************************************************************************)
(* Init: a freshly started controller, one existing channel                *)
(***************************************************************************)
ChannelRows ==
    [enabled : BOOLEAN, loop_enabled : {TRUE}, obs_override_enabled : BOOLEAN,
     current_active_source : {"NONE"},
     failover_timeout_seconds : {0, TimeStep},
     obs_token_hash : {HashToken(OBSToken)},
     loop_token_hash : {HashToken(LoopToken)}]

CtlData(rows, destEnabled) ==
    /\ db \in rows
    /\ dests = [d \in DestIds |-> [enabled |-> destEnabled, status |-> "DISCONNECTED"]]
    /\ containers = {}
    /\ activeSourceMap = [n \in Names |-> ""]
    /\ manualLoopOverride = [n \in Names |-> FALSE]
    /\ takeoverCooldown = [n \in Names |-> NoTime]
    /\ pendingSource = 0
    /\ pendingStops = {}
    /\ restarting = FALSE

CtlState(rows, destEnabled) == CtlData(rows, destEnabled) /\ tk = IdleTick

\* A specification that records neither the audit rows, nor the webhook
\* responses, nor the history of the source map
CtlInit(rows, destEnabled) ==
    /\ CtlState(rows, destEnabled)
    /\ health = NoHealth
    /\ auditLog = NotRecorded
    /\ hookResp = NoResponse
    /\ sync = "off"

(***************************************************************************)
(* Reconcile / ReconcileChannel.  Each step of the tick is a function on   *)
(* the part of the state the reconciler goroutine can touch, so that a     *)
(* specification can take the steps one lock section or API call at a time *)
(* or several of them at once.                                             *)
(***************************************************************************)
World ==
    [db |-> db, dests |-> dests, containers |-> containers,
     activeSourceMap |-> activeSourceMap,
     manualLoopOverride |-> manualLoopOverride,
     takeoverCooldown |-> takeoverCooldown, tk |-> tk,
     pendingSource |-> pendingSource]

\* The history of the channel over a step of the tick.
\*   "changing": from the step that changes ActiveSourceMap[slug] to the end
\*       of that tick; "changed": during the tick after it; "due": from the
\*       end of that tick on;
\*   "unpub": the unpublish webhook of the primary was the last handler and
\*       no tick has observed the primary since; "unpubTick": a tick of the
\*       enabled channel that started after it is running; "unpubDue": that
\*       tick has ended;
\*   "none": after any other webhook or operator action; "tainted": to the
\*       end of a tick during which one ran; "off": not recorded
UnpubPhases == {"unpub", "unpubTick", "unpubDue"}
SyncAfter(w) ==
    LET starts == tk.pc = "idle" /\ w.tk.pc # "idle"
        ends == tk.pc # "idle" /\ w.tk.pc = "idle"
        p == IF sync \in UnpubPhases
             THEN (IF starts /\ w.tk.obsAlive THEN "none"
                   ELSE IF starts /\ sync = "unpub" /\ w.tk.pc = "src" THEN "unpubTick"
                   ELSE sync)
             ELSE IF sync \notin {"off", "tainted"}
                     /\ w.activeSourceMap[Slug] # activeSourceMap[Slug]
             THEN "changing"
             ELSE sync
    IN IF ends
       THEN (CASE p = "changing" -> "changed" [] p = "changed" -> "due"
               [] p = "tainted" -> "none" [] p = "unpubTick" -> "unpubDue"
               [] OTHER -> p)
       ELSE p
Intervened ==
    IF sync = "off" THEN "off" ELSE IF tk.pc # "idle" THEN "tainted" ELSE "none"

\* The reconciler's locals after a step, with the count of completed ticks
\* and, in a specification that records the history of the maps, the
\* snapshot of the tick's start
Counted(t) ==
    [t EXCEPT !.tick = IF tk.tick = NotCounted THEN NotCounted
                       ELSE IF tk.pc # "idle" /\ t.pc = "idle" THEN tk.tick + 1
                       ELSE tk.tick,
              !.snap = IF sync = "off" THEN NoSnapshot ELSE @]

Apply(w) ==
    /\ db' = w.db
    /\ dests' = w.dests
    /\ containers' = w.containers
    /\ activeSourceMap' = w.activeSourceMap
    /\ manualLoopOverride' = w.manualLoopOverride
    /\ takeoverCooldown' = w.takeoverCooldown
    /\ tk' = Counted(w.tk)
    /\ pendingSource' = w.pendingSource
    /\ sync' = SyncAfter(w)
    /\ UNCHANGED <<pendingStops, restarting, auditLog, hookResp, health>>
    /\ UNCHANGED relayVars

\* GetChannels: the channel's row with its destinations
ChannelSnapshot(w) ==
    [Enabled |-> w.db.enabled, LoopEnabled |-> w.db.loop_enabled,
     OBSOverrideEnabled |-> w.db.obs_override_enabled,
     ActiveSource |-> w.db.current_active_source,
     FailoverTimeout |-> w.db.failover_timeout_seconds,
     Destinations |-> w.dests]

\* Reconcile (GetChannels, FetchSRSStreams) and ReconcileChannel up to the
\* liveness computation
Load(w, streams) ==
    LET ch == ChannelSnapshot(w)
        loopAlive == streams[Slug].present
        suffixAlive == streams[ObsStreamName].present
        viaToken == ~suffixAlive /\ OBSToken # "" /\ streams[OBSToken].present
        obsStream == IF viaToken THEN streams[OBSToken] ELSE streams[ObsStreamName]
        obsAlive == suffixAlive \/ viaToken
        isObsRobust == obsAlive /\ obsStream.active
                                /\ obsStream.recv > ObsKbpsThreshold
    IN [w EXCEPT !.tk =
          IF ~ch.Enabled
          THEN [IdleTick EXCEPT !.pc = "disabled", !.ch = ch]
          ELSE [IdleTick EXCEPT !.pc = "src", !.ch = ch, !.snap = Snapshot(w),
                   !.obsAlive = obsAlive, !.loopAlive = loopAlive,
                   !.obsActive = obsAlive /\ obsStream.active,
                   !.isObsRobust = isObsRobust,
                   !.ObsSourceStream = IF viaToken THEN OBSToken ELSE ObsStreamName]]

\* ReconcileDestinations, the stop branch
MarkDisconnected(snapshot, rows) ==
    [d \in DOMAIN rows |->
        IF d \in DOMAIN snapshot /\ snapshot[d].status # "DISCONNECTED"
        THEN [rows[d] EXCEPT !.status = "DISCONNECTED"] ELSE rows[d]]

StopRelay(w) ==
    [w EXCEPT !.containers = EnsureContainerStopped(w.containers, RelayName),
              !.dests = MarkDisconnected(w.tk.ch.Destinations, w.dests),
              !.tk = IdleTick]

\* ReconcileChannel for a channel that is not enabled
\* Variant: a disabled channel's tick that leaves the relay alone
Disabled_KeepsRelay(w) ==
    [w EXCEPT !.containers = EnsureContainerStopped(w.containers, LoopName),
              !.tk = IdleTick]

Disabled(w) ==
    StopRelay([w EXCEPT !.containers = EnsureContainerStopped(w.containers, LoopName)])

\* "Get current in-memory source" and "Sync from database if different".
\* The two lock sections are one step: a handler that runs between them
\* leaves the same state as one that runs before or after both.
ResolveSource(w) ==
    LET currentSource == IF w.activeSourceMap[Slug] = "" THEN "LOOP"
                         ELSE w.activeSourceMap[Slug]
        dbSource == w.tk.ch.ActiveSource
        t == [w.tk EXCEPT !.pc = "ovr", !.snap = Forget(@, "ActiveSourceMap")]
    IN IF dbSource # "" /\ dbSource # currentSource
       THEN [w EXCEPT !.activeSourceMap[Slug] = dbSource,
                      !.tk = [t EXCEPT !.currentSource = dbSource]]
       ELSE [w EXCEPT !.tk = [t EXCEPT !.currentSource = currentSource]]

\* Variant: a tick that finds the primary down falls back to the loop
Override_FallsBack(w) ==
    LET t == [w.tk EXCEPT !.pc = "auto", !.snap = Forget(@, "ManualLoopOverride")]
    IN IF ~w.tk.isObsRobust
       THEN [w EXCEPT !.manualLoopOverride[Slug] = FALSE,
                      !.activeSourceMap[Slug] = "LOOP",
                      !.tk = [t EXCEPT !.currentSource = "LOOP",
                                       !.hasManualLoopOverride = FALSE]]
       ELSE [w EXCEPT !.tk = [t EXCEPT !.hasManualLoopOverride =
                                           w.manualLoopOverride[Slug]]]

\* "Check if user has a manual LOOP override active" and "Clear manual
\* override when OBS disconnects" (one step, for the same reason)
Override(w) ==
    LET hasManualLoopOverride == w.manualLoopOverride[Slug]
        t == [w.tk EXCEPT !.pc = "auto", !.snap = Forget(@, "ManualLoopOverride")]
    IN IF ~w.tk.isObsRobust /\ hasManualLoopOverride
       THEN [w EXCEPT !.manualLoopOverride[Slug] = FALSE,
                      !.tk = [t EXCEPT !.hasManualLoopOverride = FALSE]]
       ELSE [w EXCEPT !.tk = [t EXCEPT !.hasManualLoopOverride =
                                           hasManualLoopOverride]]

\* Variant: the auto-switch ignores the manual loop override
AutoSwitchCond_IgnoresOverride(t) ==
    /\ t.ch.OBSOverrideEnabled
    /\ t.isObsRobust
    /\ t.currentSource # "OBS"

\* The condition of the AUTO-SWITCH TO OBS block
AutoSwitchCond(t) ==
    /\ t.ch.OBSOverrideEnabled
    /\ t.isObsRobust
    /\ t.currentSource # "OBS"
    /\ ~t.hasManualLoopOverride

\* AUTO-SWITCH TO OBS, ch.ActiveSource = currentSource, and the read of
\* takeoverCooldown[ch.Name] (no handler writes both the source map and the
\* cooldown map, so the read commutes with every handler that could run
\* between the two lock sections)
AutoSwitch(w) ==
    LET t == [w.tk EXCEPT !.pc = "cdact", !.snap = NoSnapshot,
                 !.currentSource = "", !.hasManualLoopOverride = FALSE,
                 !.isObsRobust = FALSE, !.obsActive = FALSE,
                 !.inCooldown = w.takeoverCooldown[Slug] # NoTime,
                 !.cooldownTime = w.takeoverCooldown[Slug]]
    IN IF AutoSwitchCond(w.tk)
       THEN [w EXCEPT !.activeSourceMap[Slug] = "OBS",
                      !.pendingSource = w.pendingSource + 1,
                      !.tk = [t EXCEPT !.switched = TRUE, !.ch.ActiveSource = "OBS"]]
       ELSE [w EXCEPT !.tk = [t EXCEPT !.ch.ActiveSource = w.tk.currentSource]]

\* The goroutine of the auto-switch can be spawned (bound of the model)
CanAutoSwitch(w) == AutoSwitchCond(w.tk) => w.pendingSource < MaxAsync

\* The cooldown guard: stop the loop and skip loop management, or drop an
\* expired entry
Cooldown(w) ==
    LET t == [w.tk EXCEPT !.inCooldown = FALSE, !.cooldownTime = NoTime]
    IN IF InCooldownWindow(w.tk.inCooldown, w.tk.cooldownTime, w.tk.ch)
       THEN [w EXCEPT !.containers = EnsureContainerStopped(w.containers, LoopName),
                      !.tk = [t EXCEPT !.pc = "destcd"]]
       ELSE IF w.tk.inCooldown
       THEN [w EXCEPT !.takeoverCooldown[Slug] = NoTime,
                      !.tk = [t EXCEPT !.pc = "loop"]]
       ELSE [w EXCEPT !.tk = [t EXCEPT !.pc = "loop"]]

\* Loop management: ContainerInspect of EnsureContainerRunning when the
\* loop is enabled, EnsureContainerStopped otherwise
Loop(w) ==
    IF w.tk.ch.LoopEnabled
    THEN [w EXCEPT !.tk.pc = IF Running(w.containers, LoopName) THEN "dest"
                             ELSE IF Exists(w.containers, LoopName) THEN "ecrRemove"
                             ELSE "ecrCreate"]
    ELSE [w EXCEPT !.containers = EnsureContainerStopped(w.containers, LoopName),
                   !.tk.pc = "dest"]

\* EnsureContainerRunning: "Not running, remove it to prevent conflicts"
EcrRemove(w) ==
    [w EXCEPT !.containers = ContainerRemove(w.containers, LoopName),
              !.tk.pc = "ecrCreate"]

\* EnsureContainerRunning: ContainerCreate; a Conflict leads to auto-resolve
EcrCreate(w) ==
    LET created == ContainerCreate(w.containers, LoopName, LoopImage,
                                   TickId(LoopName))
    IN [w EXCEPT !.containers = created,
                 !.tk.pc = IF created = w.containers
                           THEN "ecrConflict" ELSE "ecrStart"]

\* EnsureContainerRunning: force-remove the holder of the name
EcrConflict(w) ==
    [w EXCEPT !.containers = ContainerRemove(w.containers, LoopName),
              !.tk.pc = "ecrRetry"]

\* EnsureContainerRunning: create again; a second error gives up
EcrRetry(w) ==
    LET created == ContainerCreate(w.containers, LoopName, LoopImage,
                                   TickId(LoopName))
    IN [w EXCEPT !.containers = created,
                 !.tk.pc = IF created = w.containers THEN "dest" ELSE "ecrStart"]

\* EnsureContainerRunning: ContainerStart(resp.ID)
EcrStart(w) ==
    [w EXCEPT !.containers = ContainerStart(w.containers, TickId(LoopName)),
              !.tk.pc = "dest"]

\* streamActive as the two call sites of ReconcileDestinations compute it
StreamActive(t) ==
    IF t.pc = "destcd" THEN t.obsAlive \/ t.loopAlive
    ELSE t.obsAlive \/ t.loopAlive \/ t.ch.LoopEnabled

\* ReconcileDestinations, and EnsureRelayRunning up to the payload
Destinations(w) ==
    IF ~StreamActive(w.tk) \/ EnabledDests(w.tk.ch.Destinations) = <<>>
    THEN StopRelay(w)
    ELSE [w EXCEPT !.tk.pc = "relay",
                   !.tk.payload = RelayPayload(w.tk.ch, w.tk.ObsSourceStream)]

MarkConnected(snapshot, rows) ==
    [d \in DOMAIN rows |->
        IF snapshot[d].enabled /\ snapshot[d].status # "CONNECTED"
        THEN [rows[d] EXCEPT !.status = "CONNECTED"] ELSE rows[d]]

\* EnsureRelayRunning from "3. Check Container" on: upgrade, create and
\* start, start, or POST /update, which succeeds (ok) or not
Relay(w, ok) ==
    LET stale == \E c \in w.containers : c.name = RelayName /\ c.image # RelayImage
        cs == IF stale THEN ContainerRemove(w.containers, RelayName)
              ELSE w.containers
    IN IF ~Exists(cs, RelayName)
       THEN [w EXCEPT !.containers =
                ContainerStart(ContainerCreate(cs, RelayName, RelayImage,
                                               TickId(RelayName)),
                               TickId(RelayName)),
                      !.tk = IdleTick]
       ELSE IF ~Running(cs, RelayName)
       THEN [w EXCEPT !.containers =
                {IF c.name = RelayName THEN [c EXCEPT !.running = TRUE] ELSE c :
                    c \in cs},
                      !.tk = IdleTick]
       ELSE IF ok
       THEN [w EXCEPT !.dests = MarkConnected(w.tk.ch.Destinations, w.dests),
                      !.tk = IdleTick]
       ELSE [w EXCEPT !.tk = IdleTick]

\* The body of POST /update as the relay decodes it into its Config
PayloadConfig(p) == [SourceURL |-> p.source_url, Destinations |-> p.destinations]

\* The step the reconciler takes at its current position
TickStep(w) ==
    CASE w.tk.pc = "disabled" -> Disabled(w)
      [] w.tk.pc = "src" -> ResolveSource(w)
      [] w.tk.pc = "ovr" -> Override(w)
      [] w.tk.pc = "auto" -> AutoSwitch(w)
      [] w.tk.pc = "cdact" -> Cooldown(w)
      [] w.tk.pc = "loop" -> Loop(w)
      [] w.tk.pc = "ecrRemove" -> EcrRemove(w)
      [] w.tk.pc = "ecrCreate" -> EcrCreate(w)
      [] w.tk.pc = "ecrConflict" -> EcrConflict(w)
      [] w.tk.pc = "ecrRetry" -> EcrRetry(w)
      [] w.tk.pc = "ecrStart" -> EcrStart(w)
      [] w.tk.pc \in {"dest", "destcd"} -> Destinations(w)
      [] OTHER -> w

\* The tick run without interruption up to one of the positions in stops
RECURSIVE RunUntil(_, _)
RunUntil(w, stops) ==
    IF w.tk.pc \in stops THEN w ELSE RunUntil(TickStep(w), stops)

TickLoad ==
    /\ tk.pc = "idle"
    /\ \E streams \in StreamMaps : Apply(Load(World, streams))

\* Reconcile when GetChannels returns an error: the tick ends at once
GetChannelsFails ==
    /\ tk.pc = "idle"
    /\ tk' = [tk EXCEPT !.tick = IF @ = NotCounted THEN @ ELSE @ + 1]
    /\ UNCHANGED <<relayVars, health, auditLog, hookResp, sync, db, dests, containers,
                   activeSourceMap, manualLoopOverride, takeoverCooldown,
                   pendingSource, pendingStops, restarting>>

\* Reconcile when the destination query of GetChannels returns an error:
\* the error is dropped ("ch.Destinations, _ =") and the channel is
\* reconciled with a nil destination list
GetDestinationsFails ==
    /\ tk.pc = "idle"
    /\ \E streams \in StreamMaps :
          Apply([Load(World, streams) EXCEPT !.tk.ch.Destinations = <<>>])

TickDisabled == tk.pc = "disabled" /\ Apply(Disabled(World))
TickResolveSource == tk.pc = "src" /\ Apply(ResolveSource(World))
TickOverride == tk.pc = "ovr" /\ Apply(Override(World))
TickAutoSwitch == tk.pc = "auto" /\ CanAutoSwitch(World) /\ Apply(AutoSwitch(World))
TickCooldown == tk.pc = "cdact" /\ Apply(Cooldown(World))
TickLoop == tk.pc = "loop" /\ Apply(Loop(World))
TickEcrRemove == tk.pc = "ecrRemove" /\ Apply(EcrRemove(World))
TickEcrCreate == tk.pc = "ecrCreate" /\ Apply(EcrCreate(World))
TickEcrConflict == tk.pc = "ecrConflict" /\ Apply(EcrConflict(World))
TickEcrRetry == tk.pc = "ecrRetry" /\ Apply(EcrRetry(World))
TickEcrStart == tk.pc = "ecrStart" /\ Apply(EcrStart(World))
TickDestinations == tk.pc \in {"dest", "destcd"} /\ Apply(Destinations(World))
TickRelay == tk.pc = "relay" /\ \E ok \in BOOLEAN : Apply(Relay(World, ok))

\* Source selection (lines 346-405) in one step: it touches the source map,
\* the override map and the cooldown read only
TickSelectSource ==
    /\ tk.pc = "src"
    /\ CanAutoSwitch(RunUntil(World, {"auto"}))
    /\ Apply(RunUntil(World, {"cdact"}))

\* Supervision (lines 407-438 and ReconcileDestinations up to the payload)
\* in one step: it touches the cooldown map, the containers and the
\* destination rows only
TickSupervise ==
    /\ tk.pc = "cdact"
    /\ Apply(RunUntil(World, {"relay", "idle"}))

(***************************************************************************)
(* Goroutines spawned by the tick and the publish hook                     *)
(***************************************************************************)
\* UpdateActiveSource(ch.ID, "OBS")
RunUpdateActiveSource ==
    /\ pendingSource > 0
    /\ pendingSource' = pendingSource - 1
    /\ db' = [db EXCEPT !.current_active_source = "OBS"]
    /\ UNCHANGED <<relayVars, health, auditLog, hookResp, sync, dests, containers, activeSourceMap, manualLoopOverride,
                   takeoverCooldown, tk, pendingStops, restarting>>

\* EnsureContainerStopped(containerName) of the publish hook
RunContainerStop ==
    \E n \in pendingStops :
        /\ pendingStops' = pendingStops \ {n}
        /\ containers' = EnsureContainerStopped(containers, n)
        /\ UNCHANGED <<relayVars, health, auditLog, hookResp, sync, db, dests, activeSourceMap, manualLoopOverride,
                       takeoverCooldown, tk, pendingSource, restarting>>

(***************************************************************************)
(* ChannelActionHandler: POST /api/channels/{id}/{action}                  *)
(***************************************************************************)
\* case "start"
ActionStart ==
    /\ db' = [db EXCEPT !.loop_enabled = TRUE]
    /\ containers' = EnsureContainerRunning(containers, LoopName, ApiId(LoopName))
    /\ sync' = Intervened
    /\ UNCHANGED <<relayVars, health, auditLog, hookResp, dests, activeSourceMap, manualLoopOverride, takeoverCooldown,
                   tk, pendingSource, pendingStops, restarting>>

\* case "stop"
ActionStop ==
    /\ containers' = ContainerRemove(containers, LoopName)
    /\ sync' = Intervened
    /\ UNCHANGED <<relayVars, health, auditLog, hookResp, db, dests, activeSourceMap, manualLoopOverride,
                   takeoverCooldown, tk, pendingSource, pendingStops,
                   restarting>>

\* case "restart", up to the 500 ms sleep
ActionRestartRemove ==
    /\ ~restarting
    /\ containers' = ContainerRemove(containers, LoopName)
    /\ restarting' = TRUE
    /\ sync' = Intervened
    /\ UNCHANGED <<relayVars, health, auditLog, hookResp, db, dests, activeSourceMap, manualLoopOverride,
                   takeoverCooldown, tk, pendingSource, pendingStops>>

\* case "restart", after the sleep
ActionRestartStart ==
    /\ restarting
    /\ containers' = EnsureContainerRunning(containers, LoopName, ApiId(LoopName))
    /\ restarting' = FALSE
    /\ sync' = Intervened
    /\ UNCHANGED <<relayVars, health, auditLog, hookResp, db, dests, activeSourceMap, manualLoopOverride,
                   takeoverCooldown, tk, pendingSource, pendingStops>>

\* case "enable"
ActionEnable ==
    /\ db' = [db EXCEPT !.enabled = TRUE]
    /\ sync' = Intervened
    /\ UNCHANGED <<relayVars, health, auditLog, hookResp, dests, containers, activeSourceMap, manualLoopOverride,
                   takeoverCooldown, tk, pendingSource, pendingStops,
                   restarting>>

\* case "disable"
ActionDisable ==
    /\ db' = [db EXCEPT !.enabled = FALSE]
    /\ containers' = ContainerRemove(containers, LoopName)
    /\ sync' = Intervened
    /\ UNCHANGED <<relayVars, health, auditLog, hookResp, dests, activeSourceMap, manualLoopOverride, takeoverCooldown,
                   tk, pendingSource, pendingStops, restarting>>

\* DestinationHandler: POST /api/destinations/{id}/enable and /disable
DestinationAction ==
    \E d \in DOMAIN dests, e \in BOOLEAN :
        /\ dests[d].enabled # e
        /\ dests' = [dests EXCEPT ![d].enabled = e]
        /\ sync' = Intervened
        /\ UNCHANGED <<relayVars, health, auditLog, hookResp, db, containers, activeSourceMap,
                       manualLoopOverride, takeoverCooldown, tk, pendingSource,
                       pendingStops, restarting>>

\* case "switch-to-loop"
SwitchToLoop ==
    /\ db' = [db EXCEPT !.current_active_source = "LOOP"]
    /\ activeSourceMap' = [activeSourceMap EXCEPT ![Slug] = "LOOP"]
    /\ manualLoopOverride' = [manualLoopOverride EXCEPT ![Slug] = TRUE]
    /\ sync' = Intervened
    /\ UNCHANGED <<relayVars, health, auditLog, hookResp, dests, containers, takeoverCooldown, tk, pendingSource,
                   pendingStops, restarting>>

\* case "switch-to-obs"
SwitchToObs ==
    /\ db' = [db EXCEPT !.current_active_source = "OBS"]
    /\ activeSourceMap' = [activeSourceMap EXCEPT ![Slug] = "OBS"]
    /\ manualLoopOverride' = [manualLoopOverride EXCEPT ![Slug] = FALSE]
    /\ sync' = Intervened
    /\ UNCHANGED <<relayVars, health, auditLog, hookResp, dests, containers, takeoverCooldown, tk, pendingSource,
                   pendingStops, restarting>>

(***************************************************************************)
(* Webhooks of the media server                                            *)
(***************************************************************************)
Tokens == {OBSToken, LoopToken, BadToken}

\* OnPublishHandler up to "Accepted ... publish": the decision for a stream
\* name and a token.  known: a channel row was found by name or by primary
\* token; ok: the publish is accepted
PublishDecision(row, stream, token) ==
    LET streamName == TrimSuffixObs(stream)
        tokenHash == HashToken(token)
        byName == streamName = Slug /\ row.enabled
        byToken == ~byName /\ streamName = OBSToken /\ row.enabled
        isOBSStream == HasSuffixObs(stream) \/ byToken
        obsHashOK == row.obs_token_hash # NULL /\ row.obs_token_hash = tokenHash
        loopHashOK == row.loop_token_hash # NULL /\ row.loop_token_hash = tokenHash
        wrongObs == isOBSStream /\ token # OBSToken
                      /\ (row.obs_token_hash # NULL /\ row.obs_token_hash # tokenHash)
        sourceType == IF obsHashOK THEN "OBS"
                      ELSE IF loopHashOK THEN "LOOP"
                      ELSE IF token = OBSToken THEN "OBS"
                      ELSE IF token = LoopToken THEN "LOOP"
                      ELSE "none"
    IN [ok |-> (byName \/ byToken) /\ ~wrongObs /\ sourceType # "none",
        known |-> byName \/ byToken, isOBSStream |-> isOBSStream,
        sourceType |-> sourceType, streamName |-> streamName]

\* The HTTP response of OnPublishHandler: http.Error on the three rejections,
\* w.Write("0") at the end
PublishResponse(row, malformed, stream, token) ==
    LET d == PublishDecision(row, stream, token)
    IN IF malformed THEN [status |-> 400, body |-> "Bad request"]
       ELSE IF ~d.known THEN [status |-> 403, body |-> "Unknown stream"]
       ELSE IF ~d.ok THEN [status |-> 403, body |-> "Invalid token"]
       ELSE [status |-> 200, body |-> "0"]

\* INSERT INTO audit_logs; the table is written only, so a specification
\* that states nothing about it leaves it unrecorded
Audit(log, action, resource, source) ==
    IF log.on
    THEN [log EXCEPT !.rows = Append(@, [action |-> action, resource_id |-> resource,
                                         source |-> source])]
    ELSE log
CanAudit == auditLog.on => Len(auditLog.rows) < MaxAudit

\* The response the media server receives, with the request it answers
Respond(prev, r, malformed, stream, token) ==
    IF prev.on
    THEN [on |-> TRUE, seq |-> 1 - prev.seq, status |-> r.status, body |-> r.body,
          malformed |-> malformed, stream |-> stream, token |-> token]
    ELSE prev

\* UPDATE channels SET current_active_source = src WHERE name = n
UpdateSourceByName(row, n, src) ==
    IF n = Slug THEN [row EXCEPT !.current_active_source = src] ELSE row

OnPublish(malformed, stream, token) ==
        LET d == PublishDecision(db, stream, token)
        IN /\ hookResp' = Respond(hookResp, PublishResponse(db, malformed, stream, token),
                                  malformed, stream, token)
           /\ IF ~malformed /\ d.ok
              THEN /\ CanAudit
                   /\ IF d.sourceType = "OBS"
                      THEN /\ takeoverCooldown' =
                                 [n \in Names |-> IF n = d.streamName THEN 0
                                                  ELSE takeoverCooldown[n]]
                           /\ pendingStops' = pendingStops
                                                \cup {LoopContainerName(d.streamName)}
                           /\ db' = UpdateSourceByName(db, d.streamName, "OBS")
                      ELSE UNCHANGED <<takeoverCooldown, pendingStops, db>>
                   /\ auditLog' = Audit(auditLog, "STREAM_PUBLISH", stream, d.sourceType)
              ELSE /\ hookResp.on
                   /\ UNCHANGED <<takeoverCooldown, pendingStops, db, auditLog>>
           /\ sync' = Intervened
           /\ UNCHANGED <<relayVars, health, dests, containers, activeSourceMap, manualLoopOverride,
                          tk, pendingSource, restarting>>

\* Publishes to the channel's own stream names
OnPublishHandler ==
    \E stream \in {Slug, ObsStreamName}, token \in Tokens : OnPublish(FALSE, stream, token)

OnUnpublish(stream, token) ==
        LET streamName == TrimSuffixObs(stream)
        IN /\ streamName = Slug
           /\ token = OBSToken
           /\ CanAudit
           /\ takeoverCooldown' = [takeoverCooldown EXCEPT ![streamName] = NoTime]
           /\ db' = UpdateSourceByName(db, streamName, "LOOP")
           /\ auditLog' = Audit(auditLog, "STREAM_UNPUBLISH", stream, "LOOP")
           /\ sync' = IF sync = "off" THEN "off" ELSE "unpub"
           /\ UNCHANGED <<relayVars, health, hookResp, dests, containers, activeSourceMap,
                          manualLoopOverride, tk, pendingSource, pendingStops, restarting>>

OnUnpublishHandler ==
    \E stream \in {Slug, ObsStreamName}, token \in Tokens : OnUnpublish(stream, token)

\* TakeoverHandler: POST /api/takeover/{channel_name}
TakeoverHandler ==
    /\ db.enabled
    /\ CanAudit
    /\ containers' = EnsureContainerStopped(containers, LoopName)
    /\ takeoverCooldown' = [takeoverCooldown EXCEPT ![Slug] = 0]
    /\ db' = [db EXCEPT !.current_active_source = "OBS"]
    /\ auditLog' = Audit(auditLog, "OBS_TAKEOVER", Slug, "OBS")
    /\ sync' = Intervened
    /\ UNCHANGED <<relayVars, health, hookResp, dests, activeSourceMap, manualLoopOverride, tk,
                   pendingSource, pendingStops, restarting>>

(***************************************************************************)
(* Environment: the clock, and a child that exits by itself                *)
(***************************************************************************)
Aged(t) == IF t # NoTime /\ t + TimeStep <= MaxAge THEN t + TimeStep ELSE t

\* TimeStep seconds pass
Advance ==
    /\ \E n \in Names : Aged(takeoverCooldown[n]) # takeoverCooldown[n]
    /\ takeoverCooldown' = [n \in Names |-> Aged(takeoverCooldown[n])]
    /\ tk' = [tk EXCEPT !.cooldownTime = Aged(tk.cooldownTime)]
    /\ UNCHANGED <<relayVars, health, auditLog, hookResp, sync, db, dests, containers, activeSourceMap, manualLoopOverride,
                   pendingSource, pendingStops, restarting>>

ContainerExits ==
    \E c \in containers :
        /\ c.running
        /\ containers' = (containers \ {c}) \cup {[c EXCEPT !.running = FALSE]}
        /\ UNCHANGED <<relayVars, health, auditLog, hookResp, sync, db, dests, activeSourceMap, manualLoopOverride,
                       takeoverCooldown, tk, pendingSource, pendingStops,
                       restarting>>

(***************************************************************************)
(* The relay manager (one process per channel)                             *)
(***************************************************************************)

Nil == 0
NoEntry == -1
loopStream == StreamURL("waheguru")
RelaySources == {loopStream, StreamURL(Slug), StreamURL(ObsStreamName)}
RelayDests == {DestURL(1), DestURL(2)}
DestLists == {<<>>, <<DestURL(1)>>, <<DestURL(2)>>, <<DestURL(1), DestURL(2)>>}
Range(f) == {f[i] : i \in DOMAIN f}
EmptyURL == [url |-> "", stream |-> ""]
\* a goroutine that returned
Returned == [url |-> EmptyURL, pc |-> "done", alive |-> FALSE]
IdleHandler == [pc |-> "idle", newConfig |-> NoPayload, repeat |-> FALSE]

\* streamChan and the loop pump when a specification does not follow them
NoMux == [on |-> FALSE]
NoLocks == [on |-> FALSE]

RelayData ==
    /\ relayUp = TRUE
    /\ pipeOpen = TRUE
    /\ currentConfig = [SourceURL |-> EmptyURL, Destinations |-> <<>>]
    /\ currentMode = "LOOP"
    /\ obsCmd = Nil
    /\ pumps = <<>>
    /\ transcoderCmd = Nil
    /\ transcoders = <<>>
    /\ distributors = [u \in RelayDests |-> NoEntry]
    /\ failureCounts = [u \in RelayDests |-> 0]
    /\ dists = <<>>
    /\ hc = IdleHandler
    /\ mon = "idle"
    /\ lastUpdate = NoPayload

RelayInit == RelayData /\ mux = NoMux /\ locks = NoLocks

\* syscall.Kill(-cmd.Process.Pid, sig) on an entry of a process table
Kill(procs, i) ==
    IF i \in DOMAIN procs THEN [procs EXCEPT ![i].alive = FALSE] ELSE procs

\* handleConfigChange, the section under mu
ConfigChange(cfg) ==
    /\ relayUp /\ hc.pc = "idle"
    /\ hc' = [pc |-> IF cfg.SourceURL # currentConfig.SourceURL
                     THEN "source" ELSE "trans",
              newConfig |-> cfg, repeat |-> cfg = lastUpdate]
    /\ currentConfig' = cfg
    /\ UNCHANGED <<relayUp, pipeOpen, currentMode, obsCmd, pumps, transcoderCmd,
                   transcoders, distributors, failureCounts, dists, mon, mux>>

\* handleUpdate: POST /update with the body cfg
HandleUpdate(cfg) ==
    /\ ConfigChange(cfg)
    /\ lastUpdate' = cfg
    /\ UNCHANGED <<ctlVars, locks>>

\* main: handleConfigChange(initialConfig), the configuration of the
\* container's environment, once the container runs
Bootstrap(cfg) ==
    /\ Running(containers, RelayName)
    /\ currentConfig.SourceURL = EmptyURL /\ lastUpdate = NoPayload
    /\ ConfigChange(cfg)
    /\ UNCHANGED <<ctlVars, locks, lastUpdate>>

\* startOBSPump is reached with room for one more pump goroutine among n
PumpRoom(n) ==
    (hc.pc = "source" /\ hc.newConfig.SourceURL # loopStream) => Len(pumps) < n

\* startOBSPump: kill the installed pump, start the goroutine of a new one
StartOBSPump(ps, installed, url) ==
    Append(Kill(ps, installed),
           [url |-> url, pc |-> "starting", alive |-> FALSE])

\* Variant: a source change that also restarts the transcoder
HandleSourceChange_RestartsTranscoder ==
    /\ relayUp /\ hc.pc = "source"
    /\ IF hc.newConfig.SourceURL = loopStream
       THEN /\ currentMode' = "LOOP"
            /\ UNCHANGED pumps
       ELSE /\ pumps' = StartOBSPump(pumps, obsCmd, hc.newConfig.SourceURL)
            /\ UNCHANGED currentMode
    /\ transcoders' = Kill(transcoders, transcoderCmd)
    /\ hc' = [hc EXCEPT !.pc = "trans"]
    /\ UNCHANGED <<ctlVars, locks, mux, relayUp, pipeOpen, currentConfig, obsCmd, transcoderCmd,
                   distributors, failureCounts, dists, mon, lastUpdate>>

\* handleConfigChange: "if sourceChanged"
HandleSourceChange ==
    /\ relayUp /\ hc.pc = "source"
    /\ IF hc.newConfig.SourceURL = loopStream
       THEN /\ currentMode' = "LOOP"
            /\ UNCHANGED pumps
       ELSE /\ pumps' = StartOBSPump(pumps, obsCmd, hc.newConfig.SourceURL)
            /\ UNCHANGED currentMode
    /\ hc' = [hc EXCEPT !.pc = "trans"]
    /\ UNCHANGED <<ctlVars, locks, mux, relayUp, pipeOpen, currentConfig, obsCmd, transcoderCmd,
                   transcoders, distributors, failureCounts, dists, mon,
                   lastUpdate>>

\* the encoding arguments of startTranscoderProcess: "-b:v", "4000k",
\* "-b:a", "128k", "-g", "60"
TranscoderArgs == [VideoBitrate |-> 4000, AudioBitrate |-> 128, Gop |-> 60]
NewTranscoder == [pc |-> "wait", alive |-> TRUE, args |-> TranscoderArgs]

\* handleConfigChange: the transcoder check; startTranscoderProcess returns
\* at once while transcoderCmd holds a started command.  transcoderCmd is
\* read without a lock.
HandleTranscoderCheck ==
    /\ relayUp /\ hc.pc = "trans"
    /\ hc' = [hc EXCEPT !.pc = IF transcoderCmd = Nil THEN "tstart" ELSE "dists"]
    /\ UNCHANGED <<ctlVars, locks, mux, relayUp, pipeOpen, currentConfig, currentMode, obsCmd, pumps,
                   transcoderCmd, transcoders, distributors, failureCounts, dists,
                   mon, lastUpdate>>

\* startTranscoderProcess of the handler: cmd.Start(); transcoderCmd = cmd;
\* go func()
HandleTranscoderStart ==
    /\ relayUp /\ hc.pc = "tstart"
    /\ transcoders' = Append(transcoders, NewTranscoder)
    /\ transcoderCmd' = Len(transcoders) + 1
    /\ hc' = [hc EXCEPT !.pc = "dists"]
    /\ UNCHANGED <<ctlVars, locks, mux, relayUp, pipeOpen, currentConfig, currentMode, obsCmd, pumps,
                   distributors, failureCounts, dists, mon, lastUpdate>>

HandleTranscoder == HandleTranscoderCheck \/ HandleTranscoderStart

\* The transcoder processes started so far are at most n
TransRoom(n) == Len(transcoders') <= n

\* One goroutine of startDistributor: its destination, its position, its
\* process, the local variable fails, whether the process had been up for
\* more than 60 seconds when it ended, and (for the record) how many
\* launches of its destination in a row have ended early before it
Goroutine(url, early) ==
    [url |-> url, pc |-> "new", alive |-> FALSE, fails |-> 0, long |-> FALSE,
     early |-> early]
NewDistributor(url) == Goroutine(url, 0)
DistReturned ==
    [url |-> EmptyURL, pc |-> "done", alive |-> FALSE, fails |-> 0, long |-> FALSE,
     early |-> 0]

\* The goroutines started so far are at most n
DistRoom(n) == Len(dists') <= n

\* manageDistributors, the removal loop: what is left of the map, of the
\* processes and of the failure counters
Removed(destinations) ==
    {u \in RelayDests : distributors[u] # NoEntry /\ u \notin Range(destinations)}
Added(destinations) ==
    SelectSeq(destinations, LAMBDA u : distributors[u] = NoEntry)

RECURSIVE KillAll(_, _)
KillAll(procs, ids) ==
    IF ids = {} THEN procs
    ELSE LET i == CHOOSE x \in ids : TRUE
         IN KillAll(Kill(procs, i), ids \ {i})

\* manageDistributors (under destMu)
HandleDistributors ==
    /\ relayUp /\ hc.pc = "dists"
    /\ LET destinations == hc.newConfig.Destinations
           removed == Removed(destinations)
           added == Added(destinations)
           killed == KillAll(dists, {distributors[u] : u \in removed} \ {Nil})
       IN /\ dists' = killed \o [i \in 1..Len(added) |-> NewDistributor(added[i])]
          /\ distributors' = [u \in RelayDests |->
                                IF u \in removed THEN NoEntry
                                ELSE IF u \in Range(added) THEN Nil
                                ELSE distributors[u]]
          /\ failureCounts' = [u \in RelayDests |->
                                 IF u \in removed THEN 0 ELSE failureCounts[u]]
    /\ hc' = IdleHandler
    /\ UNCHANGED <<ctlVars, locks, mux, relayUp, pipeOpen, currentConfig, currentMode, obsCmd, pumps,
                   transcoderCmd, transcoders, mon, lastUpdate>>

(***************************************************************************)
(* startDistributor: the goroutine of one distributor process              *)
(***************************************************************************)
\* fails := failureCounts[destURL]; the goroutine sleeps fails * 2 seconds
DistSleep(g) ==
    /\ relayUp /\ dists[g].pc = "new"
    /\ dists' = [dists EXCEPT ![g].pc = "sleep", ![g].fails = failureCounts[dists[g].url]]
    /\ UNCHANGED <<ctlVars, locks, mux, relayUp, pipeOpen, currentConfig, currentMode, obsCmd, pumps,
                   transcoderCmd, transcoders, distributors, failureCounts,
                   hc, mon, lastUpdate>>

\* the seconds the goroutine sleeps before cmd.Start()
RetryDelay(d) == d.fails * 2

\* after the sleep, cmd.Start(): the process runs
DistLaunch(g) ==
    /\ relayUp /\ dists[g].pc = "sleep"
    /\ dists' = [dists EXCEPT ![g].pc = "run", ![g].alive = TRUE]
    /\ UNCHANGED <<ctlVars, locks, mux, relayUp, pipeOpen, currentConfig, currentMode, obsCmd, pumps,
                   transcoderCmd, transcoders, distributors, failureCounts,
                   hc, mon, lastUpdate>>

\* cmd.Start() fails: the failure is counted and startDistributor runs again
DistLaunchFails(g) ==
    /\ relayUp /\ dists[g].pc = "sleep"
    /\ failureCounts' = [failureCounts EXCEPT ![dists[g].url] = @ + 1]
    /\ dists' = Append([dists EXCEPT ![g] = DistReturned],
                       Goroutine(dists[g].url, dists[g].early + 1))
    /\ UNCHANGED <<ctlVars, locks, mux, relayUp, pipeOpen, currentConfig, currentMode, obsCmd, pumps,
                   transcoderCmd, transcoders, distributors, hc, mon, lastUpdate>>

\* distributors[destURL] = cmd
DistRegister(g) ==
    /\ relayUp /\ dists[g].pc = "run"
    /\ distributors' = [distributors EXCEPT ![dists[g].url] = g]
    /\ dists' = [dists EXCEPT ![g].pc = "wait"]
    /\ UNCHANGED <<ctlVars, locks, mux, relayUp, pipeOpen, currentConfig, currentMode, obsCmd, pumps,
                   transcoderCmd, transcoders, failureCounts, hc, mon, lastUpdate>>

\* the distributor process ends by itself (the destination drops it)
DistExits(g) ==
    /\ relayUp /\ dists[g].alive
    /\ dists' = [dists EXCEPT ![g].alive = FALSE]
    /\ UNCHANGED <<ctlVars, locks, mux, relayUp, pipeOpen, currentConfig, currentMode, obsCmd, pumps,
                   transcoderCmd, transcoders, distributors, failureCounts,
                   hc, mon, lastUpdate>>

\* Variant: every end of the process is counted as a failure
DistCount_AlwaysCounts(g) ==
    /\ relayUp /\ dists[g].pc = "wait" /\ ~dists[g].alive
    /\ \E long \in BOOLEAN :
        /\ failureCounts' = [failureCounts EXCEPT ![dists[g].url] = @ + 1]
        /\ dists' = [dists EXCEPT ![g].pc = "decide", ![g].long = long]
    /\ UNCHANGED <<ctlVars, locks, mux, relayUp, pipeOpen, currentConfig, currentMode, obsCmd, pumps,
                   transcoderCmd, transcoders, distributors, hc, mon, lastUpdate>>

\* cmd.Wait() returned: reset the counter after more than 60 s of uptime,
\* count a failure otherwise
DistCount(g) ==
    /\ relayUp /\ dists[g].pc = "wait" /\ ~dists[g].alive
    /\ \E long \in BOOLEAN :
        /\ failureCounts' = [failureCounts EXCEPT ![dists[g].url] =
                                 IF long THEN 0 ELSE @ + 1]
        /\ dists' = [dists EXCEPT ![g].pc = "decide", ![g].long = long]
    /\ UNCHANGED <<ctlVars, locks, mux, relayUp, pipeOpen, currentConfig, currentMode, obsCmd, pumps,
                   transcoderCmd, transcoders, distributors, hc, mon, lastUpdate>>

\* needed: restart the distributor, or delete its map entry
DistDecide(g) ==
    /\ relayUp /\ dists[g].pc = "decide"
    /\ IF dists[g].url \in Range(currentConfig.Destinations)
       THEN /\ dists' = Append([dists EXCEPT ![g] = DistReturned],
                               Goroutine(dists[g].url,
                                         IF dists[g].long THEN 0 ELSE dists[g].early + 1))
            /\ UNCHANGED distributors
       ELSE /\ dists' = [dists EXCEPT ![g] = DistReturned]
            /\ distributors' = [distributors EXCEPT ![dists[g].url] = NoEntry]
    /\ UNCHANGED <<ctlVars, locks, mux, relayUp, pipeOpen, currentConfig, currentMode, obsCmd, pumps,
                   transcoderCmd, transcoders, failureCounts, hc, mon, lastUpdate>>

(***************************************************************************)
(* startOBSPump: the goroutine of one primary pump; triggerFailover        *)
(***************************************************************************)
\* triggerFailover, the check: nothing to do when the mode is LOOP
\* Variant: a failover trigger that does not look at the mode
TriggerFailover_Unconditional(p, mode) == [p EXCEPT !.pc = "fo2"]

TriggerFailover(p, mode) ==
    IF mode = "LOOP" THEN Returned ELSE [p EXCEPT !.pc = "fo2"]

\* cmd.Start(): the pump runs, or triggerFailover("ObsStartError")
PumpStart(g) ==
    /\ relayUp /\ pumps[g].pc = "starting"
    /\ \E ok \in BOOLEAN :
        pumps' = IF ok
                 THEN [pumps EXCEPT ![g].pc = "install", ![g].alive = TRUE]
                 ELSE [pumps EXCEPT ![g] = TriggerFailover(@, currentMode)]
    /\ UNCHANGED <<ctlVars, locks, mux, relayUp, pipeOpen, currentConfig, currentMode, obsCmd,
                   transcoderCmd, transcoders, distributors, failureCounts,
                   dists, hc, mon, lastUpdate>>

\* obsCmd = cmd; isTarget := currentConfig.SourceURL == url
PumpInstall(g) ==
    /\ relayUp /\ pumps[g].pc = "install"
    /\ obsCmd' = g
    /\ pumps' = [pumps EXCEPT ![g].pc =
                    IF currentConfig.SourceURL = pumps[g].url THEN "switch"
                    ELSE "pump"]
    /\ UNCHANGED <<ctlVars, locks, mux, relayUp, pipeOpen, currentConfig, currentMode,
                   transcoderCmd, transcoders, distributors, failureCounts,
                   dists, hc, mon, lastUpdate>>

\* switchMode("OBS")
PumpSwitch(g) ==
    /\ relayUp /\ pumps[g].pc = "switch"
    /\ currentMode' = "OBS"
    /\ pumps' = [pumps EXCEPT ![g].pc = "pump"]
    /\ UNCHANGED <<ctlVars, locks, mux, relayUp, pipeOpen, currentConfig, obsCmd,
                   transcoderCmd, transcoders, distributors, failureCounts,
                   dists, hc, mon, lastUpdate>>

\* the pump process ends by itself (the primary ingest is gone)
PumpExits(g) ==
    /\ relayUp /\ pumps[g].alive
    /\ pumps' = [pumps EXCEPT ![g].alive = FALSE]
    /\ UNCHANGED <<ctlVars, locks, mux, relayUp, pipeOpen, currentConfig, currentMode, obsCmd,
                   transcoderCmd, transcoders, distributors, failureCounts,
                   dists, hc, mon, lastUpdate>>

\* the read loop ended: "Failover only if was active", then the check of
\* triggerFailover("ObsProcessExit")
PumpExitCheck(g) ==
    /\ relayUp /\ pumps[g].pc = "pump" /\ ~pumps[g].alive
    /\ pumps' = [pumps EXCEPT ![g] = TriggerFailover(@, currentMode)]
    /\ UNCHANGED <<ctlVars, locks, mux, relayUp, pipeOpen, currentConfig, currentMode, obsCmd,
                   transcoderCmd, transcoders, distributors, failureCounts,
                   dists, hc, mon, lastUpdate>>

\* triggerFailover: switchMode("LOOP")
PumpFailoverSwitch(g) ==
    /\ relayUp /\ pumps[g].pc = "fo2"
    /\ currentMode' = "LOOP"
    /\ pumps' = [pumps EXCEPT ![g].pc = "fo3"]
    /\ UNCHANGED <<ctlVars, locks, mux, relayUp, pipeOpen, currentConfig, obsCmd,
                   transcoderCmd, transcoders, distributors, failureCounts,
                   dists, hc, mon, lastUpdate>>

\* triggerFailover: currentConfig.SourceURL = loopStream
PumpFailoverConfig(g) ==
    /\ relayUp /\ pumps[g].pc = "fo3"
    /\ currentConfig' = [currentConfig EXCEPT !.SourceURL = loopStream]
    /\ pumps' = [pumps EXCEPT ![g] = Returned]
    /\ UNCHANGED <<ctlVars, locks, mux, relayUp, pipeOpen, currentMode, obsCmd,
                   transcoderCmd, transcoders, distributors, failureCounts,
                   dists, hc, mon, lastUpdate>>

(***************************************************************************)
(* monitorSRS                                                              *)
(***************************************************************************)
\* the configured source is not publishing on the media server:
\* triggerFailover("TrackerLost...").  The sample of currentConfig.SourceURL
\* and the mode check of triggerFailover are taken in one step.
MonitorLost ==
    /\ relayUp /\ mon = "idle"
    /\ currentConfig.SourceURL \notin {loopStream, EmptyURL}
    /\ currentMode # "LOOP"
    /\ mon' = "fo2"
    /\ UNCHANGED <<ctlVars, locks, mux, relayUp, pipeOpen, currentConfig, currentMode, obsCmd, pumps,
                   transcoderCmd, transcoders, distributors, failureCounts,
                   dists, hc, lastUpdate>>

MonitorFailoverSwitch ==
    /\ relayUp /\ mon = "fo2"
    /\ currentMode' = "LOOP"
    /\ mon' = "fo3"
    /\ UNCHANGED <<ctlVars, locks, mux, relayUp, pipeOpen, currentConfig, obsCmd, pumps,
                   transcoderCmd, transcoders, distributors, failureCounts,
                   dists, hc, lastUpdate>>

MonitorFailoverConfig ==
    /\ relayUp /\ mon = "fo3"
    /\ currentConfig' = [currentConfig EXCEPT !.SourceURL = loopStream]
    /\ mon' = "idle"
    /\ UNCHANGED <<ctlVars, locks, mux, relayUp, pipeOpen, currentMode, obsCmd, pumps,
                   transcoderCmd, transcoders, distributors, failureCounts,
                   dists, hc, lastUpdate>>

(***************************************************************************)
(* startTranscoderProcess: the goroutine that waits for the transcoder     *)
(***************************************************************************)
TranscoderExits(t) ==
    /\ relayUp /\ transcoders[t].alive
    /\ transcoders' = [transcoders EXCEPT ![t].alive = FALSE]
    /\ UNCHANGED <<ctlVars, locks, mux, relayUp, pipeOpen, currentConfig, currentMode, obsCmd, pumps,
                   transcoderCmd, distributors, failureCounts, dists, hc, mon,
                   lastUpdate>>

\* after the 500 ms sleep: if transcoderCmd == cmd { transcoderCmd = nil }
TranscoderClear(t) ==
    /\ relayUp /\ transcoders[t].pc = "wait" /\ ~transcoders[t].alive
    /\ transcoderCmd' = IF transcoderCmd = t THEN Nil ELSE transcoderCmd
    /\ transcoders' = [transcoders EXCEPT ![t].pc = "restart"]
    /\ UNCHANGED <<ctlVars, locks, mux, relayUp, pipeOpen, currentConfig, currentMode, obsCmd, pumps,
                   distributors, failureCounts, dists, hc, mon, lastUpdate>>

\* startTranscoderProcess() of the goroutine: the check of transcoderCmd
TranscoderRestartCheck(t) ==
    /\ relayUp /\ transcoders[t].pc = "restart"
    /\ transcoders' = [transcoders EXCEPT ![t].pc =
                           IF transcoderCmd # Nil THEN "done" ELSE "start"]
    /\ UNCHANGED <<ctlVars, locks, mux, relayUp, pipeOpen, currentConfig, currentMode, obsCmd, pumps,
                   transcoderCmd, distributors, failureCounts, dists, hc, mon,
                   lastUpdate>>

\* startTranscoderProcess() of the goroutine: cmd.Start(); transcoderCmd = cmd;
\* go func()
TranscoderStart(t) ==
    /\ relayUp /\ transcoders[t].pc = "start"
    /\ transcoders' = Append([transcoders EXCEPT ![t].pc = "done"], NewTranscoder)
    /\ transcoderCmd' = Len(transcoders) + 1
    /\ UNCHANGED <<ctlVars, locks, mux, relayUp, pipeOpen, currentConfig, currentMode, obsCmd, pumps,
                   distributors, failureCounts, dists, hc, mon, lastUpdate>>

TranscoderRestart(t) == TranscoderRestartCheck(t) \/ TranscoderStart(t)

\* cleanup() on SIGINT / SIGTERM and the exit of main: the registered
\* children (obsCmd, transcoderCmd, the entries of distributors) are killed,
\* the pipe is removed, the goroutines and the memory are gone.  The relay
\* is not followed after its exit: a child that was started but not yet
\* registered is not tracked further.
Cleanup ==
    /\ relayUp
    /\ relayUp' = FALSE
    /\ pipeOpen' = FALSE
    /\ currentConfig' = [SourceURL |-> EmptyURL, Destinations |-> <<>>]
    /\ currentMode' = "LOOP"
    /\ obsCmd' = Nil
    /\ pumps' = <<>>
    /\ transcoderCmd' = Nil
    /\ transcoders' = <<>>
    /\ distributors' = [u \in RelayDests |-> NoEntry]
    /\ failureCounts' = [u \in RelayDests |-> 0]
    /\ dists' = <<>>
    /\ hc' = IdleHandler
    /\ mon' = "idle"
    /\ lastUpdate' = NoPayload
    /\ UNCHANGED <<ctlVars, locks, mux>>

(***************************************************************************)
(* Muxing: loopPumpLoop, the read loop of startOBSPump, pipeWriterLoop     *)
(***************************************************************************)
\* mux.loop is the position of the loop pump's goroutine ("read": at
\* stdout.Read; "send": it found active true and is at streamChan <- data),
\* mux.streamChan the sources of the chunks in the channel, oldest first,
\* and mux.last, for the record, the source of the chunk enqueued last
MuxStart == [on |-> TRUE, loop |-> "read", streamChan |-> <<>>, last |-> ""]

\* streamChan <- data
Enqueue(m, source) ==
    [m EXCEPT !.streamChan = Append(@, source), !.last = source]

\* loopPumpLoop: stdout.Read returned a chunk; active := currentMode == "LOOP"
LoopRead ==
    /\ relayUp /\ mux.on /\ mux.loop = "read"
    /\ mux' = IF currentMode = "LOOP" THEN [mux EXCEPT !.loop = "send"] ELSE mux
    /\ UNCHANGED <<ctlVars, locks, relayUp, pipeOpen, currentConfig, currentMode, obsCmd, pumps,
                   transcoderCmd, transcoders, distributors, failureCounts,
                   dists, hc, mon, lastUpdate>>

\* loopPumpLoop: streamChan <- data (blocks while the channel is full)
LoopSend ==
    /\ relayUp /\ mux.on /\ mux.loop = "send"
    /\ Len(mux.streamChan) < MaxChan
    /\ mux' = [Enqueue(mux, "LOOP") EXCEPT !.loop = "read"]
    /\ UNCHANGED <<ctlVars, locks, relayUp, pipeOpen, currentConfig, currentMode, obsCmd, pumps,
                   transcoderCmd, transcoders, distributors, failureCounts,
                   dists, hc, mon, lastUpdate>>

\* startOBSPump goroutine: stdout.Read returned a chunk;
\* active := currentMode == "OBS"
PumpRead(g) ==
    /\ relayUp /\ mux.on /\ pumps[g].pc = "pump" /\ pumps[g].alive
    /\ pumps' = IF currentMode = "OBS" THEN [pumps EXCEPT ![g].pc = "send"] ELSE pumps
    /\ UNCHANGED <<ctlVars, locks, mux, relayUp, pipeOpen, currentConfig, currentMode, obsCmd,
                   transcoderCmd, transcoders, distributors, failureCounts,
                   dists, hc, mon, lastUpdate>>

\* startOBSPump goroutine: streamChan <- data
PumpSend(g) ==
    /\ relayUp /\ mux.on /\ pumps[g].pc = "send"
    /\ Len(mux.streamChan) < MaxChan
    /\ mux' = Enqueue(mux, "OBS")
    /\ pumps' = [pumps EXCEPT ![g].pc = "pump"]
    /\ UNCHANGED <<ctlVars, locks, relayUp, pipeOpen, currentConfig, currentMode, obsCmd,
                   transcoderCmd, transcoders, distributors, failureCounts,
                   dists, hc, mon, lastUpdate>>

\* pipeWriterLoop: pipeWriter.Write(b) of the oldest chunk
PipeWrite ==
    /\ relayUp /\ mux.on /\ mux.streamChan # <<>>
    /\ mux' = [mux EXCEPT !.streamChan = Tail(@)]
    /\ UNCHANGED <<ctlVars, locks, relayUp, pipeOpen, currentConfig, currentMode, obsCmd, pumps,
                   transcoderCmd, transcoders, distributors, failureCounts,
                   dists, hc, mon, lastUpdate>>

\* The actions of the relay's goroutines and child processes
DistributorStarts ==
    \E g \in DOMAIN dists : DistSleep(g) \/ DistLaunch(g) \/ DistRegister(g)

DistributorEnds ==
    \E g \in DOMAIN dists :
        \/ DistLaunchFails(g) \/ DistExits(g) \/ DistCount(g) \/ DistDecide(g)

PumpStep ==
    \E g \in DOMAIN pumps :
        \/ PumpStart(g) \/ PumpInstall(g) \/ PumpSwitch(g) \/ PumpExits(g)
        \/ PumpExitCheck(g) \/ PumpFailoverSwitch(g) \/ PumpFailoverConfig(g)

TranscoderStep ==
    \E t \in DOMAIN transcoders :
        \/ TranscoderExits(t) \/ TranscoderClear(t) \/ TranscoderRestart(t)

(***************************************************************************)
(* The controller and the relay of its channel: POST /update               *)
(***************************************************************************)
\* EnsureRelayRunning "4. Update Logic": the request reaches handleUpdate,
\* and the client waits for the response
TickRelayPost ==
    /\ tk.pc = "relay"
    /\ Running(containers, RelayName)
    /\ ConfigChange(PayloadConfig(tk.payload))
    /\ lastUpdate' = PayloadConfig(tk.payload)
    /\ tk' = [tk EXCEPT !.pc = "posted"]
    /\ UNCHANGED <<db, dests, containers, activeSourceMap, manualLoopOverride,
                   takeoverCooldown, pendingSource, pendingStops, restarting,
                   auditLog, hookResp, sync, health, locks>>

\* handleUpdate answered 200: "5. Update Destination Status"
TickRelayDone ==
    /\ tk.pc = "posted" /\ hc.pc = "idle"
    /\ Apply([World EXCEPT !.dests = MarkConnected(tk.ch.Destinations, dests),
                           !.tk = IdleTick])

vars == <<ctlVars, relayVars>>

\* Source selection: the tick, one lock section at a time, against the
\* switch actions, the webhooks and the takeover endpoint
SourceRows == {r \in ChannelRows : r.enabled /\ r.failover_timeout_seconds = 0}
Init ==
    /\ CtlState(SourceRows, TRUE)
    /\ health = NoHealth
    /\ auditLog = NotRecorded /\ hookResp = NoResponse /\ sync = "none"
    /\ RelayInit
Next ==
    \/ TickLoad \/ TickDisabled \/ TickResolveSource \/ TickOverride
    \/ TickAutoSwitch \/ TickSupervise \/ TickRelay
    \/ RunUpdateActiveSource \/ RunContainerStop
    \/ SwitchToLoop \/ SwitchToObs
    \/ OnPublishHandler \/ OnUnpublishHandler \/ TakeoverHandler
    \/ ActionEnable \/ ActionDisable
Spec == Init /\ [][Next]_vars

\* Loop supervision: the tick, one container call at a time, against the
\* admin actions on the loop child, the webhooks and the takeover endpoint,
\* for a channel without enabled destinations (relay supervision never
\* touches the loop child or the cooldown)
LoopRows == {r \in ChannelRows : r.enabled}
LoopInit == CtlInit(LoopRows, FALSE) /\ RelayInit
LoopNext ==
    \/ TickLoad \/ TickDisabled \/ TickSelectSource \/ TickCooldown
    \/ TickLoop \/ TickEcrRemove \/ TickEcrCreate \/ TickEcrConflict
    \/ TickEcrRetry \/ TickEcrStart \/ TickDestinations
    \/ RunUpdateActiveSource \/ RunContainerStop
    \/ ActionStart \/ ActionStop \/ ActionRestartRemove \/ ActionRestartStart
    \/ ActionEnable \/ ActionDisable
    \/ OnPublishHandler \/ OnUnpublishHandler \/ TakeoverHandler
    \/ Advance \/ ContainerExits
LoopSpec == LoopInit /\ [][LoopNext]_vars

\* The relay's destination management: POST /update with every destination
\* list, the distributor goroutines and their processes
RelayRows == {r \in SourceRows : r.obs_override_enabled}
RelayInitAll == CtlInit(RelayRows, TRUE) /\ RelayInit
DistPayloads == [SourceURL : {loopStream}, Destinations : DestLists]
DistNext ==
    \/ \E cfg \in DistPayloads : HandleUpdate(cfg)
    \/ (PumpRoom(MaxPumps) /\ HandleSourceChange)
    \/ (HandleTranscoder /\ TransRoom(MaxTranscoders)) \/ (HandleDistributors /\ DistRoom(MaxDistributors))
    \/ DistributorStarts \/ (DistributorEnds /\ DistRoom(MaxDistributors))
DistSpec == RelayInitAll /\ [][DistNext]_vars

\* The relay's source switching: POST /update with every source, the pump
\* goroutines, failover, the transcoder and the distributors
SwitchPayloads == [SourceURL : RelaySources, Destinations : {<<DestURL(1)>>}]
RelayNext ==
    \/ \E cfg \in SwitchPayloads : HandleUpdate(cfg)
    \/ (PumpRoom(MaxPumps) /\ HandleSourceChange)
    \/ (HandleTranscoder /\ TransRoom(MaxTranscoders)) \/ HandleDistributors
    \/ DistributorStarts \/ PumpStep
    \/ (TranscoderStep /\ TransRoom(MaxTranscoders))
    \/ MonitorLost \/ MonitorFailoverSwitch \/ MonitorFailoverConfig
    \/ Cleanup
RelaySpec == RelayInitAll /\ [][RelayNext]_vars

\* The relay's failover: POST /update with every source, the pump
\* goroutines and the monitor.  A goroutine that can take a step of
\* triggerFailover is scheduled in the end, and so is the monitor's.
FailoverNext ==
    \/ \E cfg \in SwitchPayloads : HandleUpdate(cfg)
    \/ (PumpRoom(MaxPumps) /\ HandleSourceChange)
    \/ (HandleTranscoder /\ TransRoom(MaxTranscoders)) \/ HandleDistributors
    \/ PumpStep
    \/ MonitorLost \/ MonitorFailoverSwitch \/ MonitorFailoverConfig
    \/ Cleanup
FailoverFairness ==
    /\ WF_vars(\E g \in DOMAIN pumps :
                  PumpExitCheck(g) \/ PumpFailoverSwitch(g) \/ PumpFailoverConfig(g))
    /\ WF_vars(MonitorFailoverSwitch)
    /\ WF_vars(MonitorFailoverConfig)
FailoverSpec == RelayInitAll /\ [][FailoverNext]_vars /\ FailoverFairness

\* A steady channel: the persisted source is PRIMARY, the loop stream is on
\* the media server and the primary ingest is not, and nothing but the tick
\* and the relay acts.  The tick runs its lock sections and its request to
\* the relay; the relay runs its handler, its pump goroutines and its
\* monitor, whose source (the primary URL) is not on the media server.
SteadyStreams ==
    [n \in StreamNames |->
        IF n = Slug THEN [present |-> TRUE, active |-> TRUE, recv |-> 2500, width |-> 1280]
        ELSE Absent]
NotOnMS(url) == url.stream \in StreamNames /\ ~SteadyStreams[url.stream].present
ChurnRows == {[r EXCEPT !.current_active_source = "OBS"] : r \in RelayRows}
ChurnInit == CtlInit(ChurnRows, TRUE) /\ RelayInit
ChurnNext ==
    \/ (tk.pc = "idle" /\ Apply(Load(World, SteadyStreams)))
    \/ TickSelectSource \/ TickSupervise
    \/ (~Running(containers, RelayName) /\ TickRelay)
    \/ TickRelayPost \/ TickRelayDone
    \/ Bootstrap([SourceURL |-> StreamURL(ObsStreamName), Destinations |-> <<DestURL(1)>>])
    \/ (PumpRoom(MaxChurnPumps) /\ HandleSourceChange)
    \/ (HandleTranscoder /\ TransRoom(MaxTranscoders)) \/ HandleDistributors
    \/ DistributorStarts
    \/ \E g \in DOMAIN pumps :
          \/ PumpStart(g) \/ PumpInstall(g) \/ PumpSwitch(g)
          \/ (NotOnMS(pumps[g].url) /\ PumpExits(g))
          \/ PumpExitCheck(g) \/ PumpFailoverSwitch(g) \/ PumpFailoverConfig(g)
    \/ (NotOnMS(currentConfig.SourceURL) /\ MonitorLost)
    \/ MonitorFailoverSwitch \/ MonitorFailoverConfig
ChurnSpec == ChurnInit /\ [][ChurnNext]_vars

\* The transcoder: POST /update (loop source, no destination), the
\* transcoder processes and the goroutines that wait for them
TranscoderPayloads == [SourceURL : {loopStream}, Destinations : {<<>>}]
TranscoderNext ==
    \/ \E cfg \in TranscoderPayloads : HandleUpdate(cfg)
    \/ (PumpRoom(MaxPumps) /\ HandleSourceChange)
    \/ (HandleTranscoder /\ TransRoom(MaxRestarts))
    \/ HandleDistributors
    \/ (TranscoderStep /\ TransRoom(MaxRestarts))
TranscoderSpec == RelayInitAll /\ [][TranscoderNext]_vars

\* Encoding parameters: POST /update with the loop source, no destination
\* and every video bitrate, audio bitrate and keyframe interval, the
\* transcoder processes and the goroutines that wait for them
EncodingPayloads ==
    [SourceURL : {loopStream}, Destinations : {<<>>},
     VideoBitrate : {TranscoderArgs.VideoBitrate, 6000},
     AudioBitrate : {TranscoderArgs.AudioBitrate, 192},
     KeyframeInterval : {2, 4}]
EncodingNext ==
    \/ \E cfg \in EncodingPayloads : HandleUpdate(cfg)
    \/ (PumpRoom(MaxPumps) /\ HandleSourceChange)
    \/ (HandleTranscoder /\ TransRoom(MaxTranscoders))
    \/ HandleDistributors
    \/ (TranscoderStep /\ TransRoom(MaxTranscoders))
EncodingSpec == RelayInitAll /\ [][EncodingNext]_vars

\* Muxing: POST /update with every source and no destination, the pump
\* goroutines with their read loops, the loop pump, the pipe writer, failover
\* and the monitor
MuxPayloads == [SourceURL : RelaySources, Destinations : {<<>>}]
MuxInit == CtlInit(RelayRows, TRUE) /\ RelayData /\ mux = MuxStart /\ locks = NoLocks
MuxNext ==
    \/ \E cfg \in MuxPayloads : HandleUpdate(cfg)
    \/ (PumpRoom(MaxPumps) /\ HandleSourceChange)
    \/ (HandleTranscoder /\ TransRoom(MaxTranscoders)) \/ HandleDistributors
    \/ PumpStep
    \/ LoopRead \/ LoopSend \/ PipeWrite
    \/ \E g \in DOMAIN pumps : PumpRead(g) \/ PumpSend(g)
    \/ MonitorLost \/ MonitorFailoverSwitch \/ MonitorFailoverConfig
MuxSpec == MuxInit /\ [][MuxNext]_vars

\* Cold start: a freshly started controller and an enabled channel with one
\* enabled destination, no container and no primary.  The loop child
\* publishes the channel's stream as soon as it runs; the relay starts with
\* the environment the tick gave its container.  The first ticks, counted,
\* against the relay's handler, pump and distributor goroutines.
ColdStreams(cs) ==
    [n \in StreamNames |->
        IF n = Slug /\ Running(cs, LoopName)
        THEN [present |-> TRUE, active |-> TRUE, recv |-> 2500, width |-> 1280]
        ELSE Absent]
ColdRows == {r \in ChannelRows : r.enabled /\ r.obs_override_enabled}
\* main: initialConfig, INITIAL_SOURCE_URL and INITIAL_DESTINATION of the
\* environment ("Just the first one for boot")
InitialConfig(p) ==
    [SourceURL |-> p.source_url, Destinations |-> <<p.destinations[1]>>]
ColdConfig == InitialConfig(RelayPayload(ChannelSnapshot(World), ""))
ColdInit ==
    /\ CtlData(ColdRows, TRUE) /\ tk = [IdleTick EXCEPT !.tick = 0]
    /\ health = NoHealth
    /\ auditLog = NotRecorded /\ hookResp = NoResponse /\ sync = "off"
    /\ RelayInit
ColdNext ==
    \/ (tk.pc = "idle" /\ tk.tick < MaxTicks
           /\ Apply(Load(World, ColdStreams(containers))))
    \/ TickSelectSource \/ TickSupervise
    \/ (~Running(containers, RelayName) /\ TickRelay)
    \/ TickRelayPost \/ TickRelayDone
    \/ Bootstrap(ColdConfig)
    \/ (PumpRoom(MaxChurnPumps) /\ HandleSourceChange)
    \/ (HandleTranscoder /\ TransRoom(MaxTranscoders)) \/ HandleDistributors
    \/ DistributorStarts
    \/ \E g \in DOMAIN pumps : PumpStart(g) \/ PumpInstall(g) \/ PumpSwitch(g)
ColdSpec == ColdInit /\ [][ColdNext]_vars

\* Upgrade of the relay image: a controller that has just started finds the
\* loop container and a relay container of another image, for a channel
\* with two enabled destinations.  The first ticks, counted, against the
\* goroutines of the relay the tick creates.
OldRelayImage == "relay-image-v1"
NewRelayRunning ==
    \E c \in containers : c.name = RelayName /\ c.image = RelayImage /\ c.running
UpgradeInit ==
    /\ db \in RelayRows
    /\ dests = [d \in 1..MaxUpgradeDests |->
                   [enabled |-> TRUE, status |-> "DISCONNECTED"]]
    /\ containers =
          {[name |-> LoopName, image |-> LoopImage, running |-> TRUE,
            id |-> TickId(LoopName)],
           [name |-> RelayName, image |-> OldRelayImage, running |-> TRUE,
            id |-> [by |-> "old", name |-> RelayName]]}
    /\ activeSourceMap = [n \in Names |-> ""]
    /\ manualLoopOverride = [n \in Names |-> FALSE]
    /\ takeoverCooldown = [n \in Names |-> NoTime]
    /\ pendingSource = 0 /\ pendingStops = {} /\ restarting = FALSE
    /\ tk = [IdleTick EXCEPT !.tick = 0]
    /\ health = NoHealth
    /\ auditLog = NotRecorded /\ hookResp = NoResponse /\ sync = "off"
    /\ RelayInit
UpgradeNext ==
    \/ (tk.pc = "idle" /\ tk.tick < MaxTicks
           /\ Apply(Load(World, ColdStreams(containers))))
    \/ TickSelectSource \/ TickSupervise
    \/ (~NewRelayRunning /\ TickRelay)
    \/ (NewRelayRunning /\ TickRelayPost) \/ TickRelayDone
    \/ (NewRelayRunning /\ Bootstrap(ColdConfig))
    \/ (PumpRoom(MaxChurnPumps) /\ HandleSourceChange)
    \/ (HandleTranscoder /\ TransRoom(MaxTranscoders)) \/ HandleDistributors
    \/ DistributorStarts
    \/ \E g \in DOMAIN pumps : PumpStart(g) \/ PumpInstall(g) \/ PumpSwitch(g)
UpgradeSpec == UpgradeInit /\ [][UpgradeNext]_vars

\* Supervision of the loop and relay containers: the tick (source selection
\* and supervision in one step each), enable and disable of the channel and
\* of its destination, start and stop of the loop, the takeover endpoint
\* (cooldown) and the clock
SuperviseNext ==
    \/ TickLoad \/ TickDisabled \/ TickSelectSource \/ TickSupervise \/ TickRelay
    \/ RunUpdateActiveSource
    \/ ActionEnable \/ ActionDisable \/ ActionStart \/ ActionStop
    \/ DestinationAction
    \/ TakeoverHandler
    \/ Advance
SuperviseSpec == RelayInitAll /\ [][SuperviseNext]_vars

\* Store failures: the first ticks, counted, each with a successful load, a
\* failed channel query or a failed destination query, against enable and
\* disable of the channel and of its destinations
StoreInit ==
    /\ CtlData(ColdRows, TRUE) /\ tk = [IdleTick EXCEPT !.tick = 0]
    /\ health = NoHealth
    /\ auditLog = NotRecorded /\ hookResp = NoResponse /\ sync = "off"
    /\ RelayInit
StoreNext ==
    \/ (tk.tick < MaxTicks /\ TickLoad)
    \/ (tk.tick < MaxTicks /\ GetChannelsFails)
    \/ (tk.tick < MaxTicks /\ GetDestinationsFails)
    \/ TickDisabled \/ TickSelectSource \/ TickSupervise \/ TickRelay
    \/ RunUpdateActiveSource
    \/ ActionEnable \/ ActionDisable \/ DestinationAction
StoreSpec == StoreInit /\ [][StoreNext]_vars

\* Preemption by the primary: the first ticks, counted, against the publish
\* and unpublish webhooks and the goroutines they spawn.  The media server
\* reports the loop stream while the loop container runs and the primary's
\* stream (active, 2500 kbps) from its accepted publish to its unpublish.
PreemptStreams ==
    [n \in StreamNames |->
        IF \/ n = Slug /\ Running(containers, LoopName)
           \/ n = ObsStreamName /\ takeoverCooldown[Slug] # NoTime
        THEN [present |-> TRUE, active |-> TRUE, recv |-> 2500, width |-> 1280]
        ELSE Absent]
PreemptInit ==
    /\ CtlData(LoopRows, TRUE) /\ tk = [IdleTick EXCEPT !.tick = 0]
    /\ health = NoHealth
    /\ auditLog = NotRecorded /\ hookResp = NoResponse /\ sync = "off"
    /\ RelayInit
PreemptNext ==
    \/ (tk.pc = "idle" /\ tk.tick < MaxTicks /\ Apply(Load(World, PreemptStreams)))
    \/ TickSelectSource \/ TickSupervise \/ TickRelay
    \/ RunContainerStop
    \/ OnPublishHandler \/ OnUnpublishHandler
PreemptSpec == PreemptInit /\ [][PreemptNext]_vars

\* The publish webhook: every stream name and token the media server can
\* send, for a channel record created by the API (token hashes stored) or
\* seeded by the schema (token hashes NULL), enabled or not, with the
\* responses and the audit rows recorded; against the goroutine that stops
\* the loop child, the start action, enable and disable, and the clock
UnknownStream == "ghost"
HookStreams == {Slug, ObsStreamName, OBSToken, UnknownStream}
HookRows ==
    {r \in [enabled : BOOLEAN, loop_enabled : {TRUE}, obs_override_enabled : {TRUE},
            current_active_source : {"NONE"}, failover_timeout_seconds : {0},
            obs_token_hash : {HashToken(OBSToken), NULL},
            loop_token_hash : {HashToken(LoopToken), NULL}] :
        (r.obs_token_hash = NULL) <=> (r.loop_token_hash = NULL)}
FirstResponse ==
    [on |-> TRUE, seq |-> 0, status |-> 0, body |-> "", malformed |-> FALSE,
     stream |-> "", token |-> ""]
HookInit ==
    /\ CtlState(HookRows, FALSE)
    /\ health = NoHealth
    /\ auditLog = [on |-> TRUE, rows |-> <<>>]
    /\ hookResp = FirstResponse
    /\ sync = "off"
    /\ RelayInit
HookNext ==
    \/ \E stream \in HookStreams, token \in Tokens : OnPublish(FALSE, stream, token)
    \/ OnPublish(TRUE, UnknownStream, BadToken)
    \/ RunContainerStop
    \/ ActionStart \/ ActionEnable \/ ActionDisable
    \/ Advance
HookSpec == HookInit /\ [][HookNext]_vars

\* Deleting the channel: the first ticks, counted, against DELETE
\* /channels/{id}.  The row carries whether it exists; GetChannels returns
\* the rows that do.
ExistingRow(r) ==
    [f \in DOMAIN r \cup {"exists"} |-> IF f = "exists" THEN TRUE ELSE r[f]]
\* ChannelActionHandler, DELETE: remove the loop container, delete the
\* destinations, delete the channel
ChannelDelete ==
    /\ db.exists
    /\ containers' = ContainerRemove(containers, LoopName)
    /\ dests' = <<>>
    /\ db' = [db EXCEPT !.exists = FALSE]
    /\ UNCHANGED <<relayVars, health, auditLog, hookResp, sync, activeSourceMap,
                   manualLoopOverride, takeoverCooldown, tk, pendingSource,
                   pendingStops, restarting>>
\* Reconcile when GetChannels returns no channel: the loop over the
\* channels has no iteration
ReconcileNoChannels ==
    /\ ~db.exists
    /\ tk.pc = "idle" /\ tk.tick < MaxTicks
    /\ tk' = [tk EXCEPT !.tick = @ + 1]
    /\ UNCHANGED <<relayVars, health, auditLog, hookResp, sync, db, dests, containers,
                   activeSourceMap, manualLoopOverride, takeoverCooldown,
                   pendingSource, pendingStops, restarting>>
DeleteInit ==
    /\ CtlData({ExistingRow(r) : r \in ColdRows}, TRUE)
    /\ tk = [IdleTick EXCEPT !.tick = 0]
    /\ health = NoHealth
    /\ auditLog = NotRecorded /\ hookResp = NoResponse /\ sync = "off"
    /\ RelayInit
DeleteNext ==
    \/ (db.exists /\ tk.tick < MaxTicks /\ TickLoad)
    \/ ReconcileNoChannels
    \/ TickSelectSource \/ TickSupervise \/ TickRelay
    \/ RunUpdateActiveSource
    \/ ChannelDelete
DeleteSpec == DeleteInit /\ [][DeleteNext]_vars

\* Stopping the loop: an enabled channel whose loop child the reconciler has
\* started, the counted ticks and POST /channels/{id}/stop.  Nothing else
\* removes the loop child here: no cooldown is installed, the channel stays
\* enabled and loop_enabled, and no start or restart is issued.
StopInit ==
    /\ db \in LoopRows
    /\ dests = [d \in DestIds |-> [enabled |-> FALSE, status |-> "DISCONNECTED"]]
    /\ containers =
          {[name |-> LoopName, image |-> LoopImage, running |-> TRUE,
            id |-> TickId(LoopName)]}
    /\ activeSourceMap = [n \in Names |-> ""]
    /\ manualLoopOverride = [n \in Names |-> FALSE]
    /\ takeoverCooldown = [n \in Names |-> NoTime]
    /\ pendingSource = 0 /\ pendingStops = {} /\ restarting = FALSE
    /\ tk = [IdleTick EXCEPT !.tick = 0]
    /\ health = NoHealth
    /\ auditLog = NotRecorded /\ hookResp = NoResponse /\ sync = "off"
    /\ RelayInit
StopNext ==
    \/ (tk.tick < MaxTicks /\ TickLoad)
    \/ TickSelectSource \/ TickSupervise
    \/ RunUpdateActiveSource
    \/ ActionStop
StopSpec == StopInit /\ [][StopNext]_vars

\* Disabling one destination of several: a channel with MaxUpgradeDests
\* enabled destinations, the counted ticks with the relay's answer to POST
\* /update, and enable and disable of each destination
DisableInit ==
    /\ db \in RelayRows
    /\ dests = [d \in 1..MaxUpgradeDests |->
                   [enabled |-> TRUE, status |-> "DISCONNECTED"]]
    /\ containers = {}
    /\ activeSourceMap = [n \in Names |-> ""]
    /\ manualLoopOverride = [n \in Names |-> FALSE]
    /\ takeoverCooldown = [n \in Names |-> NoTime]
    /\ pendingSource = 0 /\ pendingStops = {} /\ restarting = FALSE
    /\ tk = [IdleTick EXCEPT !.tick = 0]
    /\ health = NoHealth
    /\ auditLog = NotRecorded /\ hookResp = NoResponse /\ sync = "off"
    /\ RelayInit
DisableNext ==
    \/ (tk.tick < MaxTicks /\ TickLoad)
    \/ TickSelectSource \/ TickSupervise \/ TickRelay
    \/ RunUpdateActiveSource
    \/ DestinationAction
DisableSpec == DisableInit /\ [][DisableNext]_vars

(***************************************************************************)
(* The relay's locks.  Each function is the sequence of Lock, Unlock,      *)
(* RLock and RUnlock calls it makes in program order, with a Branch where  *)
(* its paths differ in the calls.  A deferred Unlock is at the return.     *)
(***************************************************************************)
LockNames == {"mu", "destMu", "failureMu", "modeMutex"}
Lock(l) == [do |-> "Lock", l |-> l, paths |-> {}]
Unlock(l) == [do |-> "Unlock", l |-> l, paths |-> {}]
RLock(l) == [do |-> "RLock", l |-> l, paths |-> {}]
RUnlock(l) == [do |-> "RUnlock", l |-> l, paths |-> {}]
\* A branch: the function continues with one of the paths
Branch(paths) == [do |-> "Branch", l |-> "", paths |-> paths]
Section(l) == <<Lock(l), Unlock(l)>>
RSection(l) == <<RLock(l), RUnlock(l)>>

switchModeLocks == Section("modeMutex")
\* triggerFailover: returns after the read of currentMode, or switches and
\* updates the configuration
triggerFailoverLocks ==
    RSection("modeMutex")
       \o <<Branch({<<>>, switchModeLocks \o Section("mu")})>>
handleStatusLocks_DestMuFirst ==
    <<Lock("destMu"), Lock("mu"), RLock("modeMutex"), RUnlock("modeMutex"),
      Unlock("mu"), Unlock("destMu")>>
handleStatusLocks ==
    <<Lock("mu"), Lock("destMu"), RLock("modeMutex"), RUnlock("modeMutex"),
      Unlock("destMu"), Unlock("mu")>>
\* manageDistributors: destMu, and failureMu under it for a removed URL
manageDistributorsLocks ==
    <<Lock("destMu"), Branch({<<>>, Section("failureMu")}), Unlock("destMu")>>
\* startOBSPump up to "go func()"
startOBSPumpLocks == Section("mu")
handleConfigChangeLocks ==
    Section("mu")
       \o <<Branch({<<>>, switchModeLocks, startOBSPumpLocks})>>
       \o manageDistributorsLocks
\* the goroutine of startOBSPump: a pipe or start error, or install, the
\* optional switch, one read of the loop, and the exit with its optional
\* failover
pumpLocks ==
    <<Branch({triggerFailoverLocks,
              Section("mu") \o Section("mu")
                 \o <<Branch({<<>>, switchModeLocks})>>
                 \o RSection("modeMutex") \o RSection("modeMutex")
                 \o <<Branch({<<>>, triggerFailoverLocks})>>})>>
\* one round of monitorSRS
monitorSRSLocks ==
    Section("mu") \o <<Branch({<<>>, triggerFailoverLocks})>>
\* the goroutine of startDistributor: a start error, or a run to the
\* process's exit followed by the restart or the delete
distributorLocks ==
    Section("failureMu")
       \o <<Branch({Section("failureMu"),
                    Section("destMu") \o Section("failureMu") \o Section("mu")
                       \o <<Branch({<<>>, Section("destMu")})>>})>>
cleanupLocks ==
    <<Lock("mu"), Lock("destMu"), Unlock("destMu"), Unlock("mu")>>

LockThreads ==
    {"handleStatus", "handleConfigChange", "distributor", "pump",
     "monitorSRS", "cleanup"}
LockProgram(t) ==
    CASE t = "handleStatus" -> handleStatusLocks
      [] t = "handleConfigChange" -> handleConfigChangeLocks
      [] t = "distributor" -> distributorLocks
      [] t = "pump" -> pumpLocks
      [] t = "monitorSRS" -> monitorSRSLocks
      [] t = "cleanup" -> cleanupLocks
\* The ways a goroutine can continue: the branches at the head are taken
RECURSIVE Continue(_)
Continue(todo) ==
    IF todo = <<>> THEN {<<>>}
    ELSE IF Head(todo).do = "Branch"
    THEN UNION {Continue(p \o Tail(todo)) : p \in Head(todo).paths}
    ELSE {todo}

NoOwner == "none"
Busy(t) == locks.th[t].todo # <<>>
NextOp(t) == Head(locks.th[t].todo)
\* sync.RWMutex: a writer that has called Lock keeps new readers out
PendingWriter(u) ==
    /\ Busy(u) /\ locks.th[u].waiting
    /\ NextOp(u) = Lock("modeMutex")
\* The call op of goroutine t returns at once
Available(t, op) ==
    CASE op.do = "Lock" ->
            locks.owner[op.l] = NoOwner /\ locks.readers[op.l] = {}
      [] op.do = "RLock" ->
            /\ locks.owner[op.l] = NoOwner
            /\ ~\E u \in LockThreads \ {t} : PendingWriter(u)
      [] OTHER -> TRUE
Held(t) ==
    {l \in LockNames : locks.owner[l] = t \/ t \in locks.readers[l]}

\* A goroutine enters one of its functions
LockEnter(t) ==
    /\ locks.on /\ locks.up /\ ~Busy(t)
    /\ \E p \in Continue(LockProgram(t)) : p # <<>> /\
          locks' = [locks EXCEPT !.th[t] = [todo |-> p, waiting |-> FALSE]]
    /\ UNCHANGED <<ctlVars, relayUp, pipeOpen, currentConfig, currentMode, obsCmd,
                   pumps, transcoderCmd, transcoders, distributors,
                   failureCounts, dists, hc, mon, lastUpdate, mux>>
\* modeMutex.Lock is called and cannot return yet: the writer is pending
LockWait(t) ==
    /\ locks.on /\ locks.up /\ Busy(t) /\ ~locks.th[t].waiting
    /\ NextOp(t) = Lock("modeMutex") /\ ~Available(t, NextOp(t))
    /\ locks' = [locks EXCEPT !.th[t].waiting = TRUE]
    /\ UNCHANGED <<ctlVars, relayUp, pipeOpen, currentConfig, currentMode, obsCmd,
                   pumps, transcoderCmd, transcoders, distributors,
                   failureCounts, dists, hc, mon, lastUpdate, mux>>
\* Lock or RLock returns
LockAcquire(t) ==
    /\ locks.on /\ locks.up /\ Busy(t)
    /\ NextOp(t).do \in {"Lock", "RLock"} /\ Available(t, NextOp(t))
    /\ \E p \in Continue(Tail(locks.th[t].todo)) : locks' =
          [locks EXCEPT
             !.owner[NextOp(t).l] = IF NextOp(t).do = "Lock" THEN t ELSE @,
             !.readers[NextOp(t).l] = IF NextOp(t).do = "RLock" THEN @ \cup {t} ELSE @,
             !.th[t] = [todo |-> p, waiting |-> FALSE]]
    /\ UNCHANGED <<ctlVars, relayUp, pipeOpen, currentConfig, currentMode, obsCmd,
                   pumps, transcoderCmd, transcoders, distributors,
                   failureCounts, dists, hc, mon, lastUpdate, mux>>
\* Unlock or RUnlock; the return of cleanup ends the process (main returns)
LockRelease(t) ==
    /\ locks.on /\ locks.up /\ Busy(t)
    /\ NextOp(t).do \in {"Unlock", "RUnlock"}
    /\ \E p \in Continue(Tail(locks.th[t].todo)) : locks' =
          [locks EXCEPT
             !.owner[NextOp(t).l] = IF NextOp(t).do = "Unlock" THEN NoOwner ELSE @,
             !.readers[NextOp(t).l] = IF NextOp(t).do = "RUnlock" THEN @ \ {t} ELSE @,
             !.th[t] = [todo |-> p, waiting |-> FALSE],
             !.up = ~(t = "cleanup" /\ Len(locks.th[t].todo) = 1)]
    /\ UNCHANGED <<ctlVars, relayUp, pipeOpen, currentConfig, currentMode, obsCmd,
                   pumps, transcoderCmd, transcoders, distributors,
                   failureCounts, dists, hc, mon, lastUpdate, mux>>

LocksFree ==
    [on |-> TRUE, up |-> TRUE,
     owner |-> [l \in LockNames |-> NoOwner],
     readers |-> [l \in LockNames |-> {}],
     th |-> [t \in LockThreads |-> [todo |-> <<>>, waiting |-> FALSE]]]
LockInit ==
    /\ CtlInit(RelayRows, TRUE)
    /\ RelayData /\ mux = NoMux /\ locks = LocksFree
LockNext ==
    \E t \in LockThreads :
        LockEnter(t) \/ LockWait(t) \/ LockAcquire(t) \/ LockRelease(t)
LockSpec == LockInit /\ [][LockNext]_vars

\* The takeover cooldown: the takeover endpoint, the publish webhook with
\* every stream name and token, the unpublish webhook, the goroutine that
\* stops the loop and the clock, with the webhook responses recorded
CooldownInit ==
    /\ CtlState(RelayRows, FALSE)
    /\ health = NoHealth /\ hookResp = FirstResponse /\ sync = "off"
    /\ auditLog = NotRecorded
    /\ RelayInit
CooldownNext ==
    \/ TakeoverHandler
    \/ \E stream \in HookStreams, token \in Tokens : OnPublish(FALSE, stream, token)
    \/ OnUnpublishHandler
    \/ RunContainerStop
    \/ Advance
CooldownSpec == CooldownInit /\ [][CooldownNext]_vars

\* The audit table: the tick against the handlers that insert into
\* audit_logs (publish and unpublish webhooks, takeover endpoint) and the
\* goroutines they and the tick spawn, with the inserted rows recorded
AuditInit ==
    /\ CtlState(LoopRows, FALSE)
    /\ health = NoHealth
    /\ auditLog = [on |-> TRUE, rows |-> <<>>]
    /\ hookResp = NoResponse
    /\ sync = "off"
    /\ RelayInit
AuditNext ==
    \/ TickLoad \/ TickSelectSource \/ TickSupervise
    \/ RunUpdateActiveSource \/ RunContainerStop
    \/ OnPublishHandler \/ OnUnpublishHandler \/ TakeoverHandler
AuditSpec == AuditInit /\ [][AuditNext]_vars

(***************************************************************************)
(* UpdateHealthHistory and IsStable                                        *)
(***************************************************************************)
\* ch.Name + "_loop", ch.Name + "_obs"
HealthKey(n, ingress) == [ch |-> n, ingress |-> ingress]
HealthKeys == {HealthKey(Slug, "loop"), HealthKey(Slug, "obs")}

\* Variant: a full history drops its newest sample
UpdateHealthHistory_EvictsNewest(h, window, key, healthy) ==
    LET history == Append(h[key], healthy)
    IN [h EXCEPT ![key] = IF Len(history) > window
                          THEN SubSeq(history, 1, Len(history) - 1)
                          ELSE history]

UpdateHealthHistory(h, window, key, healthy) ==
    LET history == Append(h[key], healthy)
    IN [h EXCEPT ![key] = IF Len(history) > window THEN Tail(history)
                          ELSE history]

IsStable(h, window, key, expectedState) ==
    IF Len(h[key]) < window THEN FALSE
    ELSE \A i \in DOMAIN h[key] : h[key][i] = expectedState

\* No call of IsStable has returned yet
NoAnswer == [none |-> TRUE]

\* the calls: pushed keeps every sample handed to UpdateHealthHistory, in
\* order, and stable the last call of IsStable with what it returned
UpdateHealthHistoryCall ==
    /\ health.on
    /\ \E key \in HealthKeys, healthy \in BOOLEAN :
          /\ Len(health.pushed[key]) < MaxPushes
          /\ health' = [health EXCEPT
                 !.HealthHistory = UpdateHealthHistory(@, health.StabilityWindow,
                                                       key, healthy),
                 !.pushed[key] = Append(@, healthy)]
    /\ UNCHANGED <<relayVars, db, dests, containers, activeSourceMap,
                   manualLoopOverride, takeoverCooldown, tk, pendingSource,
                   pendingStops, restarting, auditLog, hookResp, sync>>

IsStableCall ==
    /\ health.on
    /\ \E key \in HealthKeys, expectedState \in BOOLEAN :
          health' = [health EXCEPT !.stable =
                        [key |-> key, expectedState |-> expectedState,
                         returned |-> IsStable(health.HealthHistory,
                                               health.StabilityWindow,
                                               key, expectedState)]]
    /\ UNCHANGED <<relayVars, db, dests, containers, activeSourceMap,
                   manualLoopOverride, takeoverCooldown, tk, pendingSource,
                   pendingStops, restarting, auditLog, hookResp, sync>>

\* The health history: every stability window, every sequence of calls
HealthInit ==
    /\ CtlState(RelayRows, TRUE)
    /\ \E window \in 1..MaxWindow :
          health = [on |-> TRUE, StabilityWindow |-> window,
                    HealthHistory |-> [k \in HealthKeys |-> <<>>],
                    pushed |-> [k \in HealthKeys |-> <<>>],
                    stable |-> NoAnswer]
    /\ hookResp = NoResponse /\ sync = "off" /\ auditLog = NotRecorded
    /\ RelayInit
HealthNext == UpdateHealthHistoryCall \/ IsStableCall
HealthSpec == HealthInit /\ [][HealthNext]_vars

\* Destination backoff: a relay whose desired destinations stay the same
\* two URLs (POST /update repeats one configuration), the goroutines of
\* startDistributor and their processes, which fail to start, end early
\* or end after more than 60 seconds
BackoffConfig == [SourceURL |-> loopStream, Destinations |-> <<DestURL(1), DestURL(2)>>]
BackoffNext ==
    \/ HandleUpdate(BackoffConfig)
    \/ (PumpRoom(MaxPumps) /\ HandleSourceChange)
    \/ (HandleTranscoder /\ TransRoom(MaxTranscoders)) \/ (HandleDistributors /\ DistRoom(MaxLaunches))
    \/ DistributorStarts \/ (DistributorEnds /\ DistRoom(MaxLaunches))
BackoffSpec == RelayInitAll /\ [][BackoffNext]_vars

(***************************************************************************)
(* Properties of source selection (Spec)                                   *)
(***************************************************************************)
\* C1: while the manual loop override of a channel is set, the channel's
\* entry in the source map is not OBS, and a relay payload the tick holds
\* does not carry the primary source.
C1_OverrideExcludesPrimary ==
    manualLoopOverride[Slug] =>
        /\ activeSourceMap[Slug] # "OBS"
        /\ tk.payload # NoPayload => tk.payload.source_url = StreamURL(Slug)

C3_TickKeepsPrimary ==
    /\ [][(/\ tk'.pc # tk.pc
           /\ activeSourceMap[Slug] = "OBS"
           /\ (IF tk.pc = "idle" THEN db.current_active_source
               ELSE tk.ch.ActiveSource) = "OBS")
          => activeSourceMap'[Slug] = "OBS"]_vars
    /\ [][(activeSourceMap'[Slug] = "LOOP" /\ activeSourceMap[Slug] # "LOOP")
          => \/ SwitchToLoop
             \/ TickResolveSource /\ tk.ch.ActiveSource = "LOOP"]_vars
    /\ [][(db'.current_active_source = "LOOP" /\ db.current_active_source # "LOOP")
          => SwitchToLoop \/ OnUnpublishHandler]_vars

\* a tick that found the primary gone hands the primary source to the relay
C3_Witness ==
    /\ tk.pc = "relay" /\ ~tk.obsAlive
    /\ activeSourceMap[Slug] = "OBS"
    /\ tk.payload.source_url = StreamURL(ObsStreamName)

(***************************************************************************)
(* Properties of loop supervision (LoopSpec)                               *)
(***************************************************************************)
InCooldown ==
    InCooldownWindow(takeoverCooldown[Slug] # NoTime, takeoverCooldown[Slug],
                     ChannelSnapshot(World))

\* C4: while the channel has a cooldown entry younger than its failover
\* timeout, no step creates or starts the loop container, and the loop
\* container is not running when a tick ends.
C4_NoLoopInCooldown ==
    [][InCooldown =>
        /\ \A c \in containers' : c.name = LoopName => c \in containers
        /\ (tk.pc # "idle" /\ tk'.pc = "idle") => ~Running(containers', LoopName)]_vars

RunningDistributors(u) == {g \in DOMAIN dists : dists[g].url = u /\ dists[g].alive}

\* C6: for every destination URL of the relay's desired set, at most one
\* distributor process runs.
C6_OneDistributorPerURL ==
    \A u \in Range(currentConfig.Destinations) :
        Cardinality(RunningDistributors(u)) <= 1

\* C7: once no POST /update is being processed, no distributor process runs
\* for a URL that is not in the relay's desired set.
C7_RemovedStaysStopped ==
    hc.pc = "idle" =>
        \A u \in RelayDests \ Range(currentConfig.Destinations) :
            RunningDistributors(u) = {}

(***************************************************************************)
(* Properties of the relay's source switching (RelaySpec)                  *)
(***************************************************************************)
\* the goroutine of pump g finds that its process did not start, or that
\* its process has exited
PumpGone(g) ==
    \/ pumps[g].pc = "starting" /\ pumps'[g].pc # "starting" /\ ~pumps'[g].alive
    \/ pumps[g].pc = "pump" /\ ~pumps[g].alive /\ pumps'[g] # pumps[g]

\* the process of pump g has exited and its goroutine has not looked yet
PumpExited(g) == g \in DOMAIN pumps /\ pumps[g].pc = "pump" /\ ~pumps[g].alive

\* the goroutine of pump g is in triggerFailover, past the mode check
PumpFailing(g) == g \in DOMAIN pumps /\ pumps[g].pc = "fo2"

SourceSwitchStep ==
    \/ hc' # hc
    \/ currentMode' # currentMode
    \/ currentConfig'.SourceURL # currentConfig.SourceURL

\* the pipe, every running transcoder process and the running distributors
\* of the destinations that stay are left alone
KeepsPipeline ==
    /\ pipeOpen' = pipeOpen
    /\ \A t \in DOMAIN transcoders :
          transcoders[t].alive => transcoders'[t] = transcoders[t]
    /\ \A g \in DOMAIN dists :
          (dists[g].alive /\ dists[g].url \in Range(currentConfig'.Destinations)) =>
              /\ dists'[g] = dists[g]
              /\ \A h \in DOMAIN dists' \ DOMAIN dists : dists'[h].url # dists[g].url

\* C9: a source switch, by POST /update or by failover, does not stop or
\* restart the transcoder, does not stop or restart a distributor whose
\* destination stays in the set, and leaves the pipe open.
C9_SwitchKeepsPipeline ==
    [][(relayUp' /\ SourceSwitchStep) => KeepsPipeline]_vars

\* after a switch to the primary by POST /update and a failover back to the
\* loop, the transcoder and the distributor run as before
C9_Witness ==
    /\ lastUpdate # NoPayload /\ lastUpdate.SourceURL # loopStream
    /\ currentMode = "LOOP" /\ currentConfig.SourceURL = loopStream
    /\ transcoderCmd = 1 /\ transcoders[1].alive
    /\ distributors[DestURL(1)] = 1 /\ dists[1].alive

\* GET /status
Status ==
    [source |-> currentConfig.SourceURL,
     mode |-> currentMode,
     destinations |-> {<<u, distributors[u] # Nil /\ dists[distributors[u]].alive>> :
                          u \in {v \in RelayDests : distributors[v] # NoEntry}},
     transcoder_running |-> transcoderCmd # Nil /\ transcoders[transcoderCmd].alive]

\* C10: the steps that process a POST /update whose payload equals that of
\* the previous POST /update change nothing in GET /status and start or
\* kill no pump, transcoder or distributor.
C10_RepeatedUpdateIsNoOp ==
    [][(relayUp' /\ hc' # hc /\ (hc.repeat \/ hc'.repeat)) =>
        /\ Status' = Status
        /\ pumps' = pumps
        /\ transcoders' = transcoders
        /\ dists' = dists]_vars

(***************************************************************************)
(* Properties of the tick and the relay together (ChurnSpec)               *)
(***************************************************************************)
\* C11: when the stored desired state and the observed stream state are the
\* same in two consecutive ticks, the second tick creates, removes, starts
\* or restarts no supervised container, and its request to the relay starts
\* or kills no pump, transcoder or distributor; in particular while the
\* source is PRIMARY and the primary ingest is absent.  In ChurnSpec every
\* tick sees the same stored and observed state, so every tick after the
\* first request (hc.repeat: the body is the one of the previous request)
\* is such a second tick.
C11_RepeatedTickIsQuiet ==
    [][/\ (tk.pc = "posted" /\ hc.repeat /\ hc' # hc)
            => pumps' = pumps /\ transcoders' = transcoders /\ dists' = dists
       /\ (lastUpdate # NoPayload /\ tk' # tk) => containers' = containers]_vars

(***************************************************************************)
(* Properties of the source map and the persisted source (Spec)            *)
(***************************************************************************)
\* C12: after a tick changes ActiveSourceMap[slug] (auto-preemption or
\* adoption of the store value), the map and the persisted
\* current_active_source are equal by the end of the next tick and stay
\* equal while no webhook and no operator action intervenes, although the
\* store write of the auto-preemption is asynchronous.  sync = "due": the
\* tick after the last tick that changed the map has ended, and no handler
\* has run since that change.
C12_MapEqualsStore ==
    sync = "due" => activeSourceMap[Slug] = db.current_active_source

\* C13: once switch-to-loop has set ManualLoopOverride, a tick clears it if
\* and only if it observes primary_up = false; no tick clears it while the
\* primary ingest is still publishing on the media server; and while it is
\* set no tick switches the source map to PRIMARY.
C13_OverrideUntilPrimaryStops ==
    [][(tk' # tk /\ manualLoopOverride[Slug]) =>
          /\ tk.pc = "ovr" => (~manualLoopOverride'[Slug] <=> ~tk.isObsRobust)
          /\ (tk.pc = "ovr" /\ tk.obsAlive /\ tk.obsActive) => manualLoopOverride'[Slug]
          /\ tk.pc # "ovr" => manualLoopOverride'[Slug]
          /\ activeSourceMap'[Slug] = "OBS" => activeSourceMap[Slug] = "OBS"]_vars

\* C14: after the unpublish webhook was handled with the primary token, the
\* channel has no TakeoverCooldown entry and its persisted source is LOOP;
\* while the primary stays down (no tick observes it, no handler runs) the
\* persisted source stays LOOP and, once a tick that started after the
\* webhook has ended, so does the source map (an absent entry reads as
\* LOOP), whenever the pending store write of an earlier auto-preemption is
\* scheduled.
C14_UnpublishSticks ==
    /\ sync \in UnpubPhases =>
          /\ takeoverCooldown[Slug] = NoTime
          /\ db.current_active_source = "LOOP"
    /\ sync = "unpubDue" => activeSourceMap[Slug] \in {"LOOP", ""}

(***************************************************************************)
(* Properties of the publish webhook (HookSpec)                            *)
(***************************************************************************)
\* A step of OnPublishHandler, and its request
PublishStep == hookResp' # hookResp
Accepted == hookResp'.body = "0"
PrimaryStream == hookResp'.stream \in {ObsStreamName, OBSToken}

\* C15: every accepted primary publish, whichever way its stream name
\* resolved (slug, slug-obs, or the primary token as stream name), installs
\* TakeoverCooldown[slug], requests the stop of loop-{slug}, writes source
\* PRIMARY for the channel to the store and appends an audit row.
C15_AcceptedPrimaryPublish ==
    [][(/\ PublishStep /\ Accepted
        /\ PublishDecision(db, hookResp'.stream, hookResp'.token).sourceType = "OBS")
       => /\ takeoverCooldown'[Slug] = 0
          /\ LoopName \in pendingStops'
          /\ db'.current_active_source = "OBS"
          /\ Len(auditLog'.rows) = Len(auditLog.rows) + 1
          /\ auditLog'.rows[Len(auditLog'.rows)].action = "STREAM_PUBLISH"]_vars

\* C16: a publish to a primary stream (slug-obs, or the primary token as
\* stream name) is accepted only with the channel's primary token, whether
\* the stored hash of the primary token is present or NULL.
C16_PrimaryStreamNeedsPrimaryToken ==
    [][(PublishStep /\ PrimaryStream /\ Accepted) => hookResp'.token = OBSToken]_vars

\* C17: a rejected publish (malformed body, unknown or disabled channel, a
\* token that is neither credential, a wrong token on a primary stream)
\* gets a response other than "0" and leaves TakeoverCooldown, the persisted
\* source, the loop child and the audit rows as they are; only an accepted
\* publish gets "0".
C17_RejectedPublish ==
    [][PublishStep =>
          /\ ( \/ hookResp'.malformed
               \/ hookResp'.stream = UnknownStream \/ ~db.enabled
               \/ hookResp'.token \notin {OBSToken, LoopToken}
               \/ (PrimaryStream /\ hookResp'.token # OBSToken) ) => ~Accepted
          /\ ~Accepted => UNCHANGED <<takeoverCooldown, db, containers, pendingStops,
                                      auditLog>>
          /\ Accepted => Len(auditLog'.rows) = Len(auditLog.rows) + 1]_vars

\* C34: a publish to the channel's loop stream (stream name equal to the
\* slug) with a token other than the loop token never has the effects of a
\* primary publish: no cooldown is installed, no stop of the loop child is
\* requested and the persisted source is not changed.
C34_LoopStreamOtherToken ==
    /\ PublishStep /\ ~hookResp'.malformed
    /\ hookResp'.stream = Slug /\ hookResp'.token # LoopToken
C34_LoopStreamNeedsLoopToken ==
    [][C34_LoopStreamOtherToken =>
          UNCHANGED <<takeoverCooldown, pendingStops, db>>]_vars

\* C36: an accepted primary publish that follows an installed cooldown of the
\* channel (POST /takeover/{slug}) leaves exactly one TakeoverCooldown entry
\* for the channel: the install replaces the entry, it adds no second one.
C36_Entries(cooldown) == {n \in Names : cooldown[n] # NoTime}
C36_PrimaryPublish ==
    /\ PublishStep /\ Accepted
    /\ PublishDecision(db, hookResp'.stream, hookResp'.token).sourceType = "OBS"
C36_OneCooldownEntry ==
    [][(C36_PrimaryPublish /\ C36_Entries(takeoverCooldown) = {Slug})
          => C36_Entries(takeoverCooldown') = {Slug}]_vars

\* C37: once the channel is deleted and the reconciler tick that was in
\* progress has finished, neither loop-{slug} nor relay-{slug} is running.
C37_Deleted == ~db.exists /\ tk.pc = "idle"
C37_NoChildAfterDelete ==
    C37_Deleted => ~Running(containers, LoopName) /\ ~Running(containers, RelayName)

\* C38: after POST /channels/{id}/stop on an enabled channel the loop child
\* stays stopped across the reconciler ticks for as long as no start or
\* restart is issued.
C38_LoopStopped == ~Running(containers, LoopName)
C38_StaysStopped == [][C38_LoopStopped => C38_LoopStopped']_vars

\* C39: a disabled destination's stored status becomes DISCONNECTED: a tick
\* that read the destination as disabled and reached the relay (which keeps
\* running for the other destinations) leaves the status DISCONNECTED.
C39_SeenDisabled(d) ==
    /\ tk.pc = "relay"
    /\ d \in DOMAIN tk.ch.Destinations /\ ~tk.ch.Destinations[d].enabled
    /\ ~dests[d].enabled
C39_DisabledDisconnects ==
    [][\A d \in DOMAIN dests :
          (C39_SeenDisabled(d) /\ tk'.pc = "idle")
             => dests'[d].status = "DISCONNECTED"]_vars

\* C40: the relay's locks are acquired in one order (mu, destMu, then
\* failureMu or modeMutex), no set of goroutines waits in a cycle, and a
\* goroutine that has left its function holds no lock.
C40_Rank == [mu |-> 1, destMu |-> 2, failureMu |-> 3, modeMutex |-> 4]
C40_Acquiring(t) == Busy(t) /\ NextOp(t).do \in {"Lock", "RLock"}
C40_Ordered ==
    \A t \in LockThreads :
        C40_Acquiring(t) =>
            \A h \in Held(t) : C40_Rank[h] < C40_Rank[NextOp(t).l]
C40_Blocked(t) == C40_Acquiring(t) /\ ~Available(t, NextOp(t))
C40_Blocks(u, t) ==
    /\ u # t
    /\ \/ locks.owner[NextOp(t).l] = u
       \/ NextOp(t).do = "Lock" /\ u \in locks.readers[NextOp(t).l]
       \/ NextOp(t).do = "RLock" /\ PendingWriter(u)
C40_Deadlock ==
    \E S \in SUBSET LockThreads \ {{}} :
        \A t \in S : C40_Blocked(t) /\ \E u \in S : C40_Blocks(u, t)
C40_Released == \A t \in LockThreads : ~Busy(t) => Held(t) = {}
C40_LockDiscipline ==
    locks.on => C40_Ordered /\ ~C40_Deadlock /\ C40_Released
C40_Witness ==
    /\ locks.on
    /\ Held("handleStatus") = {"mu", "destMu"}
    /\ C40_Blocked("handleStatus") /\ C40_Blocks("pump", "handleStatus")
    /\ C40_Blocked("cleanup") /\ C40_Blocked("distributor")

(***************************************************************************)
(* Properties of container supervision (SuperviseSpec)                     *)
(***************************************************************************)
\* C18: the tick of a channel with enabled = false, whatever the stream
\* state, leaves neither loop-{slug} nor relay-{slug} as a running child and
\* every destination DISCONNECTED; a tick of the channel once it is enabled
\* again starts them by the normal rules: the loop when it is enabled and
\* no takeover cooldown runs, the relay when the tick reaches
\* EnsureRelayRunning.
C18_DisabledStopsAll ==
    [][tk' # tk =>
          /\ tk.pc = "disabled" =>
                /\ ~Exists(containers', LoopName)
                /\ ~Exists(containers', RelayName)
                /\ \A d \in DestIds : dests'[d].status = "DISCONNECTED"
          /\ (/\ tk.pc = "cdact" /\ tk.ch.LoopEnabled
              /\ ~InCooldownWindow(tk.inCooldown, tk.cooldownTime, tk.ch))
                => Running(containers', LoopName)
          /\ tk.pc = "relay" => Running(containers', RelayName)]_vars

\* a disabled channel's tick is about to act on a running loop, a running
\* relay and a connected destination
C18_Witness ==
    /\ tk.pc = "disabled"
    /\ Running(containers, LoopName) /\ Running(containers, RelayName)
    /\ \E d \in DestIds : dests[d].status = "CONNECTED"

\* C19: in every tick of an enabled channel the relay is stopped, and all
\* destinations are marked DISCONNECTED, if and only if the channel has no
\* enabled destination, or neither the primary nor the loop stream is on the
\* media server and loop_enabled is false; otherwise the tick goes on to
\* create, start or update the relay, which runs afterwards.  This holds in
\* every branch, a tick inside the takeover cooldown included.
C19_StopsRelay ==
    tk.ch.Enabled /\
      ( \/ EnabledDests(tk.ch.Destinations) = <<>>
        \/ (~tk.obsAlive /\ ~tk.loopAlive /\ ~tk.ch.LoopEnabled) )
C19_RelayStopRule ==
    [][tk' # tk =>
          /\ (tk.pc = "cdact" /\ C19_StopsRelay) =>
                /\ tk'.pc = "idle"
                /\ ~Exists(containers', RelayName)
                /\ \A d \in DestIds : dests'[d].status = "DISCONNECTED"
          /\ (tk.pc = "cdact" /\ ~C19_StopsRelay) => tk'.pc = "relay"
          /\ tk.pc = "relay" => Running(containers', RelayName)]_vars
(***************************************************************************)
(* Properties of the destination backoff (BackoffSpec)                     *)
(***************************************************************************)
\* C20: for each destination, when a distributor process has ended, the
\* failure counter of its destination becomes 0 if the process had been up
\* for more than 60 seconds and grows by one otherwise; and a goroutine
\* that is started after k launches of its destination in a row have ended
\* early finds the counter at k and sleeps 2k seconds before its launch.
C20_Slept(d) == d.pc \in {"sleep", "run", "wait", "decide"}
C20_BackoffDelay ==
    /\ [][\A g \in DOMAIN dists :
            (dists[g].pc = "wait" /\ dists'[g].pc = "decide") =>
                failureCounts'[dists[g].url] =
                    IF dists'[g].long THEN 0 ELSE failureCounts[dists[g].url] + 1]_vars
    /\ [](\A g \in DOMAIN dists :
            /\ dists[g].pc = "new" => failureCounts[dists[g].url] = dists[g].early
            /\ C20_Slept(dists[g]) => RetryDelay(dists[g]) = 2 * dists[g].early)

\* the fifth retry of a destination in a row has slept 10 seconds and its
\* process runs, while the other destination's distributor, started after
\* a launch that lasted, has not slept
C20_Witness ==
    \E g, h \in DOMAIN dists :
        /\ dists[g].url = DestURL(1) /\ dists[g].alive
        /\ dists[g].early = 5 /\ RetryDelay(dists[g]) = 10
        /\ dists[h].url = DestURL(2) /\ h > 2 /\ C20_Slept(dists[h])
        /\ dists[h].early = 0 /\ RetryDelay(dists[h]) = 0

\* C21: once the removal of a destination is fully processed (the handler is
\* done, the URL is not in the configuration, it has no map entry and no
\* goroutine of it is left), the failure counter of the URL is zero.
C21_Processed(u) ==
    /\ hc.pc = "idle"
    /\ u \notin Range(currentConfig.Destinations)
    /\ distributors[u] = NoEntry
    /\ \A g \in DOMAIN dists : dists[g].url # u
C21_RemovalPurgesCounter ==
    \A u \in RelayDests : C21_Processed(u) => failureCounts[u] = 0

(***************************************************************************)
(* Properties of the scenarios (ColdSpec)                                  *)
(***************************************************************************)
\* C22: cold start of a loop-only channel with one enabled destination:
\* once three ticks are completed and the relay's goroutines have done their
\* steps, the loop child runs, the relay child runs, /status reports mode
\* LOOP and exactly one distributor runs.
C22_Settled ==
    /\ hc.pc = "idle"
    /\ \A g \in DOMAIN pumps : pumps[g].pc \in {"pump", "done"}
    /\ \A g \in DOMAIN dists : dists[g].pc \in {"wait", "done"}
C22_ColdStart ==
    (tk.pc = "idle" /\ tk.tick >= 3 /\ C22_Settled) =>
        /\ Running(containers, LoopName)
        /\ Running(containers, RelayName)
        /\ Status.mode = "LOOP"
        /\ Cardinality({d \in Status.destinations : d[2]}) = 1

(***************************************************************************)
(* Properties of the muxing (MuxSpec)                                      *)
(***************************************************************************)
\* C23: every chunk is placed on streamChan while currentMode is the mode of
\* the pump that places it, and no chunk of the other source is placed
\* after a chunk of the mode's source.
C23_Enqueued(source) ==
    /\ Len(mux'.streamChan) = Len(mux.streamChan) + 1
    /\ mux'.last = source
C23_ChunksFollowMode ==
    [][\A source \in {"LOOP", "OBS"} :
          C23_Enqueued(source) =>
              /\ currentMode = source
              /\ ~(mux.last = currentMode /\ source # currentMode)]_vars

(***************************************************************************)
(* Properties of the steady channel whose primary ingest is gone           *)
(* (ChurnSpec)                                                             *)
(***************************************************************************)
\* C24: once the relay has failed over, its mode stays LOOP for as long as
\* the primary ingest is not publishing, whatever the controller posts: no
\* pump started after a failover flips the mode from LOOP to OBS.  Here the
\* primary ingest never publishes and every configuration the relay receives
\* names the primary source, so a pump after the first is started only when
\* a failover (triggerFailover) has put the loop URL into the configuration
\* copy in between.
C24_AfterFailover(g) == g > 1
C24_FlipsBack(g) ==
    /\ pumps[g].pc = "switch" /\ pumps'[g].pc = "pump"
    /\ currentMode = "LOOP" /\ currentMode' = "OBS"
C24_StaysOnLoop ==
    [][\A g \in DOMAIN pumps : C24_AfterFailover(g) => ~C24_FlipsBack(g)]_vars

\* C25: a pump goroutine that fails over to the loop after the exit of its
\* process is the goroutine of the installed pump (obsCmd): the exit of a
\* pump that was killed and replaced flips nothing.
C25_FailsOver(g) == pumps[g].pc = "fo2" /\ pumps'[g].pc = "fo3"
C25_OnlyInstalledPumpFailsOver ==
    [][\A g \in DOMAIN pumps :
          (C25_FailsOver(g) /\ currentMode = "OBS" /\ currentMode' = "LOOP") =>
              obsCmd = g]_vars

(***************************************************************************)
(* Properties of the relay's source switching (RelaySpec), continued       *)
(***************************************************************************)
\* C26: whenever the source of the configuration copy is the loop URL, no
\* handleConfigChange is in progress and no pump goroutine is between its
\* start and its read loop, currentMode is LOOP.
C26_Quiescent ==
    /\ hc.pc = "idle"
    /\ \A g \in DOMAIN pumps : pumps[g].pc \notin {"starting", "install", "switch"}
C26_LoopSourceMeansLoopMode ==
    (relayUp /\ currentConfig.SourceURL = loopStream /\ C26_Quiescent) =>
        currentMode = "LOOP"

\* C27: at most one transcoder process runs at any time.
C27_RunningTranscoders == {t \in DOMAIN transcoders : transcoders[t].alive}
C27_OneTranscoder == Cardinality(C27_RunningTranscoders) <= 1

\* C28: every map a tick reads (ActiveSourceMap, ManualLoopOverride,
\* TakeoverCooldown) has, when the tick reads it, the value it had when the
\* tick began: a handler's write during the tick is not observed by it.
C28_ReadsSnapshot ==
    /\ (tk.pc = "src" /\ tk'.pc = "ovr") =>
           activeSourceMap[Slug] = tk.snap.ActiveSourceMap
    /\ (tk.pc = "ovr" /\ tk'.pc = "auto") =>
           manualLoopOverride[Slug] = tk.snap.ManualLoopOverride
    /\ (tk.pc = "auto" /\ tk'.pc = "cdact") =>
           (takeoverCooldown[Slug] # NoTime) = tk.snap.TakeoverCooldown
C28_TickActsOnSnapshot == [][C28_ReadsSnapshot]_vars

\* C29: a tick whose destination query failed stops no relay child because
\* of the failure: where supervision with the destinations loaded would
\* leave the running relay container running, the tick leaves it running.
C29_FailedLoad == tk.pc = "cdact" /\ tk.ch.Destinations = <<>>
C29_Loaded == [World EXCEPT !.tk.ch.Destinations = dests]
C29_LoadedKeepsRelay ==
    Running(RunUntil(C29_Loaded, {"relay", "idle"}).containers, RelayName)
C29_Supervised ==
    (C29_FailedLoad /\ tk'.pc # "cdact" /\ Running(containers, RelayName)
        /\ C29_LoadedKeepsRelay) => Running(containers', RelayName)
C29_FailedLoadStopsNothing == [][C29_Supervised]_vars

\* C30: when the tick that follows the primary's accepted publish posts the
\* /update carrying the primary source URL to the running relay, the loop
\* child is still running.
C30_Preempting ==
    /\ tk.pc = "relay" /\ Running(containers, RelayName)
    /\ takeoverCooldown[Slug] # NoTime
    /\ tk.ch.ActiveSource = "OBS"
    /\ tk.payload.source_url = StreamURL(ObsStreamName)
C30_LoopStillRunning == C30_Preempting => Running(containers, LoopName)

(***************************************************************************)
(* Properties of the audit table (AuditSpec)                               *)
(***************************************************************************)
\* C31: every automatic switch to the primary made by the tick appends one
\* row with action AUTO_SWITCH for the channel to audit_logs.
C31_AutoSwitches == ~tk.switched /\ tk'.switched
C31_AutoSwitchRow == [action |-> "AUTO_SWITCH", resource_id |-> Slug, source |-> "OBS"]
C31_AutoSwitchAudited ==
    [][C31_AutoSwitches => auditLog'.rows = Append(auditLog.rows, C31_AutoSwitchRow)]_vars

(***************************************************************************)
(* Properties of the relay upgrade (UpgradeSpec)                           *)
(***************************************************************************)
\* C32: once the tick that replaced the relay of another image has ended and
\* the new relay has handled its initial configuration, and before any
\* /update reaches it, the relay is configured with the full set of the
\* channel's enabled destinations.
C32_Booted ==
    /\ NewRelayRunning /\ tk.pc = "idle"
    /\ currentConfig.SourceURL # EmptyURL /\ hc.pc = "idle"
    /\ lastUpdate = NoPayload
C32_EnabledURLs == {DestURL(d) : d \in {e \in DOMAIN dests : dests[e].enabled}}
C32_UpgradeConfigured ==
    C32_Booted => Range(currentConfig.Destinations) = C32_EnabledURLs

(***************************************************************************)
(* Properties of the encoding parameters (EncodingSpec)                    *)
(***************************************************************************)
\* C33: the handler of POST /update leaves the running transcoder alone only
\* when the transcoder encodes with the video and audio bitrate of the new
\* configuration: an /update that changes them restarts the transcoder with
\* the new parameters.
C33_LeavesTranscoder ==
    /\ hc.pc = "trans" /\ hc'.pc = "dists"
    /\ transcoderCmd \in DOMAIN transcoders /\ transcoders[transcoderCmd].alive
    /\ transcoders' = transcoders
C33_EncodesAs(t, cfg) ==
    /\ transcoders[t].args.VideoBitrate = cfg.VideoBitrate
    /\ transcoders[t].args.AudioBitrate = cfg.AudioBitrate
C33_EncodingFollowsUpdate ==
    [][C33_LeavesTranscoder => C33_EncodesAs(transcoderCmd, hc.newConfig)]_vars

(***************************************************************************)
(* Properties of the health history (HealthSpec)                           *)
(***************************************************************************)
\* the last n elements of a sequence
C35_LastN(q, n) == SubSeq(q, Len(q) - n + 1, Len(q))
C35_Min(a, b) == IF a < b THEN a ELSE b
C35_Full(key, s) ==
    /\ Len(health.HealthHistory[key]) = health.StabilityWindow
    /\ \A i \in DOMAIN health.HealthHistory[key] : health.HealthHistory[key][i] = s

\* C35: for every key and every sequence of UpdateHealthHistory calls the
\* history is never longer than the stability window and equals the last
\* min(n, window) pushed samples in push order; IsStable(key, s) is true
\* iff the history holds window samples all equal to s, so with a window of
\* 1 it equals the last sample.
C35_HealthHistory ==
    \A key \in HealthKeys :
        LET history == health.HealthHistory[key]
            pushed == health.pushed[key]
            window == health.StabilityWindow
        IN /\ Len(history) <= window
           /\ history = C35_LastN(pushed, C35_Min(Len(pushed), window))
           /\ \A s \in BOOLEAN :
                 /\ IsStable(health.HealthHistory, window, key, s) <=> C35_Full(key, s)
                 /\ (window = 1 /\ pushed # <<>>) =>
                       (IsStable(health.HealthHistory, window, key, s)
                           <=> pushed[Len(pushed)] = s)
           /\ (health.stable # NoAnswer /\ health.stable.key = key) =>
                 (health.stable.returned =>
                     \E n \in 0..Len(pushed) :
                        /\ n >= window
                        /\ \A i \in (n - window + 1)..n :
                              pushed[i] = health.stable.expectedState)

\* a history that has evicted samples was found stable
C35_Witness ==
    \E key \in HealthKeys :
        /\ Len(health.pushed[key]) > health.StabilityWindow
        /\ health.stable # NoAnswer /\ health.stable.key = key
        /\ health.stable.returned
        /\ IsStable(health.HealthHistory, health.StabilityWindow, key,
                    health.stable.expectedState)

====
